---- MODULE Spec2Model ----
(***************************************************************************)
(* Dashboard data layer of the BSU research dashboard (script.js):         *)
(* the localStorage cache (version, timestamp, data), the page-load and    *)
(* year-filter handlers, the bulk fetch and the unload hook.               *)
(*                                                                         *)
(* Strings are sequences of one-character strings, so that parseInt,       *)
(* toString, split and trim are computed rather than assumed.              *)
(* JavaScript objects are functions from the names of their own            *)
(* properties; a missing property is a name outside the DOMAIN.            *)
(* An optional value (undefined / a value) is <<>> or <<v>>.               *)
(*                                                                         *)
(* Intermediate values are bound as parameters of local operators          *)
(* (LET F(x) == ... IN F(e)) or by \E r \in {e}, never as LET constants     *)
(* used several times: TLC's coverage statistics expand every use of a     *)
(* LET constant, and the cost grows exponentially with the nesting.        *)
(***************************************************************************)
EXTENDS Integers, Sequences, FiniteSets, TLC

VARIABLES localStorage, sessionStorage, pageLoaded, rendered, loadingOverlay,
          yearFilter, yearOptions, inflight, now, lastEvent

\* The export-report page (reports.js): its two module variables, what its
\* document shows, and its requests.
VARIABLES lastPreviewPublications, currentPreviewPage, reportPage, reportRequests

reportVars == <<lastPreviewPublications, currentPreviewPage, reportPage, reportRequests>>

dashboardVars == <<localStorage, sessionStorage, pageLoaded, rendered, loadingOverlay,
                   yearFilter, yearOptions, inflight, now, lastEvent>>

vars == <<localStorage, sessionStorage, pageLoaded, rendered, loadingOverlay,
          yearFilter, yearOptions, inflight, now, lastEvent,
          lastPreviewPublications, currentPreviewPage, reportPage, reportRequests>>

(***************************************************************************)
(* Bounds of the model.                                                    *)
(***************************************************************************)
\* number of 12-hour clock steps taken after the initial instant
MaxTicks == 2
\* number of loadAllData continuations that may wait on a fetch at once
MaxInflight == 2

(***************************************************************************)
(* Program constants.                                                      *)
(***************************************************************************)
CACHE_KEY == "bsu_research_data"
CACHE_TIMESTAMP_KEY == "bsu_research_data_timestamp"
CACHE_VERSION_KEY == "bsu_research_cache_version"
CACHE_VERSION == 2
CACHE_DURATION == 24 * 60 * 60 * 1000

(***************************************************************************)
(* The clock.  Date.now() is counted in milliseconds from the model epoch  *)
(* 2026-03-30T00:00Z (day EpochDay after 1970-01-01) so that it fits       *)
(* 32-bit integers; only differences of instants and the calendar date     *)
(* are ever used by the program.                                           *)
(***************************************************************************)
MsPerDay == 24 * 60 * 60 * 1000
EpochDay == 20542
StartMs == MsPerDay
TickMs == MsPerDay \div 2

\* new Date().getFullYear() and getMonth() + 1: the civil date of a day number
CivilFromDays(d) ==
    LET Date(y, m) == [year |-> y + (IF m <= 2 THEN 1 ELSE 0), month |-> m]
        FromMp(y, mp) == Date(y, IF mp < 10 THEN mp + 3 ELSE mp - 9)
        FromDoy(y, doy) == FromMp(y, (5 * doy + 2) \div 153)
        FromYoe(era, doe, yoe) ==
            FromDoy(yoe + era * 400, doe - (365 * yoe + yoe \div 4 - yoe \div 100))
        FromDoe(era, doe) ==
            FromYoe(era, doe,
                    (doe - doe \div 1460 + doe \div 36524 - doe \div 146096) \div 365)
        FromEra(z, era) == FromDoe(era, z - era * 146097)
        FromZ(z) == FromEra(z, z \div 146097)
    IN  FromZ(d + 719468)

getFullYear(t) == CivilFromDays(EpochDay + t \div MsPerDay).year
getMonth(t) == CivilFromDays(EpochDay + t \div MsPerDay).month - 1

(***************************************************************************)
(* Strings and numbers.                                                    *)
(***************************************************************************)
DigitChars == <<"0", "1", "2", "3", "4", "5", "6", "7", "8", "9">>
IsDigit(c) == \E i \in 1..10 : DigitChars[i] = c
DigitValue(c) == (CHOOSE i \in 1..10 : DigitChars[i] = c) - 1

\* a JavaScript number that is NaN or an integer
NaN == [nan |-> TRUE, n |-> 0]
Num(n) == [nan |-> FALSE, n |-> n]

RECURSIVE TrimStart(_)
TrimStart(s) == IF s # <<>> /\ Head(s) = " " THEN TrimStart(Tail(s)) ELSE s

RECURSIVE TrimEnd(_)
TrimEnd(s) ==
    IF s # <<>> /\ s[Len(s)] = " " THEN TrimEnd(SubSeq(s, 1, Len(s) - 1)) ELSE s

\* String.prototype.trim
trim(s) == TrimEnd(TrimStart(s))

RECURSIVE DigitPrefixLen(_)
DigitPrefixLen(s) ==
    IF s # <<>> /\ IsDigit(Head(s)) THEN 1 + DigitPrefixLen(Tail(s)) ELSE 0

RECURSIVE DigitsValue(_)
DigitsValue(s) ==
    IF s = <<>> THEN 0
    ELSE 10 * DigitsValue(SubSeq(s, 1, Len(s) - 1)) + DigitValue(s[Len(s)])

\* parseInt(s, 10): leading white space, an optional sign, the longest run of
\* digits; NaN when there is no digit.  (parseInt(s) without a radix differs
\* only on a 0x prefix, which no string of the model has.)
parseInt(s) ==
    LET Magnitude(u, k, negative) ==
            IF k = 0 THEN NaN
            ELSE IF negative THEN Num(0 - DigitsValue(SubSeq(u, 1, k)))
            ELSE Num(DigitsValue(SubSeq(u, 1, k)))
        Unsigned(u, negative) == Magnitude(u, DigitPrefixLen(u), negative)
        Signed(t) ==
            IF t # <<>> /\ Head(t) \in {"-", "+"}
            THEN Unsigned(Tail(t), Head(t) = "-")
            ELSE Unsigned(t, FALSE)
    IN  Signed(TrimStart(s))

RECURSIVE Digits(_)
Digits(n) ==
    IF n < 10 THEN <<DigitChars[n + 1]>>
    ELSE Append(Digits(n \div 10), DigitChars[(n % 10) + 1])

\* Number.prototype.toString / String(n) of an integer
toString(n) == IF n < 0 THEN <<"-">> \o Digits(0 - n) ELSE Digits(n)

\* the part of a string before its first "/": s.split('/')[0]
RECURSIVE splitSlashFirst(_)
splitSlashFirst(s) ==
    IF s = <<>> \/ Head(s) = "/" THEN <<>>
    ELSE <<Head(s)>> \o splitSlashFirst(Tail(s))

(***************************************************************************)
(* JavaScript values.                                                      *)
(***************************************************************************)
\* undefined, and a defined value
Undefined == <<>>
Def(v) == <<v>>

\* obj.name: undefined when the object has no such property
Prop(obj, name) == IF name \in DOMAIN obj THEN Def(obj[name]) ELSE Undefined

\* top-level JSON values: null, false, or an object.  Reading a property
\* of false gives undefined, as of an object without properties.
JNull == [type |-> "null"]
JFalse == [type |-> "false", obj |-> <<>>]
JObject(o) == [type |-> "object", obj |-> o]
Truthy(v) == v.type = "object"

\* scalar property values of a publication record (year, month)
SNull == [t |-> "null", n |-> 0, frac |-> FALSE, s |-> <<>>]
\* the number n, or n + 1/2 when frac
SNum(n) == [t |-> "num", n |-> n, frac |-> FALSE, s |-> <<>>]
SHalf(n) == [t |-> "num", n |-> n, frac |-> TRUE, s |-> <<>>]
SStr(s) == [t |-> "str", n |-> 0, frac |-> FALSE, s |-> s]

\* String(x) of a number of the model
numberToString(x) ==
    IF ~x.frac THEN toString(x.n)
    ELSE IF x.n >= 0 THEN Digits(x.n) \o <<".", "5">>
    ELSE <<"-">> \o Digits(0 - (x.n + 1)) \o <<".", "5">>

(***************************************************************************)
(* JSON text.  A stored string is the empty string, a text JSON.parse      *)
(* rejects, or the serialisation of a JSON value.                          *)
(***************************************************************************)
EmptyText == [kind |-> "empty"]
GarbageText == [kind |-> "garbage"]

\* JSON.stringify of a value obtained from response.json()
\* (fetch bodies carry no undefined, NaN or cyclic values)
JSONstringify(v) ==
    IF v.type = "null" THEN [kind |-> "json", lit |-> "null"]
    ELSE IF v.type = "false" THEN [kind |-> "json", lit |-> "false"]
    ELSE [kind |-> "json", lit |-> "object", members |-> v.obj]

\* JSON.parse: [threw |-> TRUE] for a SyntaxError
JSONparse(text) ==
    IF text.kind # "json" THEN [threw |-> TRUE]
    ELSE IF text.lit = "null" THEN [threw |-> FALSE, value |-> JNull]
    ELSE IF text.lit = "false" THEN [threw |-> FALSE, value |-> JFalse]
    ELSE [threw |-> FALSE, value |-> JObject(text.members)]

(***************************************************************************)
(* localStorage: a function from the keys that are present.                *)
(***************************************************************************)
hasItem(ls, key) == key \in DOMAIN ls

setItem(ls, key, value) ==
    [k \in DOMAIN ls \cup {key} |-> IF k = key THEN value ELSE ls[k]]

removeItem(ls, key) == [k \in DOMAIN ls \ {key} |-> ls[k]]

\* localStorage.getItem(CACHE_VERSION_KEY) passed to parseInt(., 10):
\* parseInt(null) is NaN
storedVersion(ls) ==
    IF hasItem(ls, CACHE_VERSION_KEY) THEN parseInt(ls[CACHE_VERSION_KEY]) ELSE NaN

\* isCacheValid with the duration taken in seconds instead of milliseconds
isCacheValid_seconds(ls, t) ==
    LET Age(ts) == IF ts.nan THEN FALSE ELSE t - ts.n < 24 * 60 * 60
        Timestamp ==
            IF ~hasItem(ls, CACHE_TIMESTAMP_KEY) \/ ls[CACHE_TIMESTAMP_KEY] = <<>>
            THEN FALSE
            ELSE Age(parseInt(ls[CACHE_TIMESTAMP_KEY]))
        Version(version) ==
            IF version.nan \/ version.n # CACHE_VERSION THEN FALSE ELSE Timestamp
    IN  Version(storedVersion(ls))

\* isCacheValid with age <= CACHE_DURATION
isCacheValid_inclusive(ls, t) ==
    LET Age(ts) == IF ts.nan THEN FALSE ELSE t - ts.n <= CACHE_DURATION
        Timestamp ==
            IF ~hasItem(ls, CACHE_TIMESTAMP_KEY) \/ ls[CACHE_TIMESTAMP_KEY] = <<>>
            THEN FALSE
            ELSE Age(parseInt(ls[CACHE_TIMESTAMP_KEY]))
        Version(version) ==
            IF version.nan \/ version.n # CACHE_VERSION THEN FALSE ELSE Timestamp
    IN  Version(storedVersion(ls))

\* isCacheValid without the version check
isCacheValid_anyVersion(ls, t) ==
    LET Age(ts) == IF ts.nan THEN FALSE ELSE t - ts.n < CACHE_DURATION
        Timestamp ==
            IF ~hasItem(ls, CACHE_TIMESTAMP_KEY) \/ ls[CACHE_TIMESTAMP_KEY] = <<>>
            THEN FALSE
            ELSE Age(parseInt(ls[CACHE_TIMESTAMP_KEY]))
    IN  Timestamp

isCacheValid(ls, t) ==
    LET Age(ts) == IF ts.nan THEN FALSE ELSE t - ts.n < CACHE_DURATION
        Timestamp ==
            IF ~hasItem(ls, CACHE_TIMESTAMP_KEY) \/ ls[CACHE_TIMESTAMP_KEY] = <<>>
            THEN FALSE
            ELSE Age(parseInt(ls[CACHE_TIMESTAMP_KEY]))
        Version(version) ==
            IF version.nan \/ version.n # CACHE_VERSION THEN FALSE ELSE Timestamp
    IN  Version(storedVersion(ls))

\* getCachedData without the try/catch around JSON.parse
getCachedData_noCatch(ls) ==
    LET Parsed(r) == IF r.threw THEN [type |-> "throw"] ELSE r.value
    IN  IF hasItem(ls, CACHE_KEY) /\ ls[CACHE_KEY] # EmptyText
        THEN Parsed(JSONparse(ls[CACHE_KEY]))
        ELSE JNull

getCachedData(ls) ==
    LET Parsed(r) == IF r.threw THEN JNull ELSE r.value
    IN  IF hasItem(ls, CACHE_KEY) /\ ls[CACHE_KEY] # EmptyText
        THEN Parsed(JSONparse(ls[CACHE_KEY]))
        ELSE JNull

\* setCachedData that does not write the version marker
setCachedData_noVersion(ls, data, t) ==
    setItem(setItem(ls, CACHE_KEY, JSONstringify(data)),
            CACHE_TIMESTAMP_KEY, toString(t))

setCachedData(ls, data, t) ==
    setItem(setItem(setItem(ls, CACHE_KEY, JSONstringify(data)),
                    CACHE_TIMESTAMP_KEY, toString(t)),
            CACHE_VERSION_KEY, toString(CACHE_VERSION))

\* setCachedData with the timestamp written before the data
setCachedDataThrows_timestampFirst(ls, data, t, k) ==
    IF k = 1 THEN ls
    ELSE IF k = 2 THEN setItem(ls, CACHE_TIMESTAMP_KEY, toString(t))
    ELSE setItem(setItem(ls, CACHE_TIMESTAMP_KEY, toString(t)),
                 CACHE_KEY, JSONstringify(data))

\* the store that setCachedData(data) leaves when its k-th setItem throws
\* (a storage write fails, e.g. the quota is exceeded): the writes before
\* the k-th are done
setCachedDataThrows(ls, data, t, k) ==
    IF k = 1 THEN ls
    ELSE IF k = 2 THEN setItem(ls, CACHE_KEY, JSONstringify(data))
    ELSE setItem(setItem(ls, CACHE_KEY, JSONstringify(data)),
                 CACHE_TIMESTAMP_KEY, toString(t))

\* clearCacheOnClose that leaves the version marker
clearCacheOnClose_keepsVersion(ls) ==
    removeItem(removeItem(ls, CACHE_KEY), CACHE_TIMESTAMP_KEY)

clearCacheOnClose(ls) ==
    removeItem(removeItem(removeItem(ls, CACHE_KEY), CACHE_TIMESTAMP_KEY),
               CACHE_VERSION_KEY)

(***************************************************************************)
(* Year-filtered aggregation (the body of loadDashboardData's try block).  *)
(***************************************************************************)
\* getPubYear converting a string with Number(), which takes no text after
\* the digits
getPubYear_strictNumber(pub) ==
    LET Strict(s) == IF s # <<>> /\ \A i \in 1..Len(s) : IsDigit(s[i])
                     THEN <<DigitsValue(s)>> ELSE <<>>
        OfValue(v) ==
            IF v.t = "null" \/ (v.t = "str" /\ v.s = <<>>) THEN <<>>
            ELSE IF v.t = "num" THEN <<v.n>>
            ELSE Strict(trim(v.s))
    IN  IF "year" \in DOMAIN pub THEN OfValue(pub.year) ELSE <<>>

\* getPubYear: null (<<>>) or the normalized year (<<y>>)
getPubYear(pub) ==
    LET Year(y) == IF y.nan THEN <<>> ELSE <<y.n>>
        FirstOrWhole(a, s) == IF a.nan \/ a.n = 0 THEN Year(parseInt(trim(s))) ELSE Year(a)
        OfValue(v) ==
            IF v.t = "null" \/ (v.t = "str" /\ v.s = <<>>) THEN <<>>
            ELSE IF v.t = "num" THEN <<v.n>>
            ELSE FirstOrWhole(parseInt(trim(splitSlashFirst(v.s))), v.s)
    IN  IF "year" \in DOMAIN pub THEN OfValue(pub.year) ELSE <<>>

\* filteredPublications without the yearValue !== null test, null taken as 0
filteredPublications_nullIsZero(allPublications, filterYear) ==
    SelectSeq(allPublications,
              LAMBDA pub : getPubYear(pub) = <<filterYear>>
                           \/ (getPubYear(pub) = <<>> /\ filterYear = 0))

\* allPublications.filter(pub => getPubYear(pub) === filterYear)
filteredPublications(allPublications, filterYear) ==
    SelectSeq(allPublications, LAMBDA pub : getPubYear(pub) = <<filterYear>>)

\* An entry of the publications array that is null, and a colleges value
\* that is a non-empty string instead of an array.  A property holds values
\* of one type in the model, so the string is kept under collegesText.
NullRecord == [null |-> TRUE]
isNullRecord(pub) == "null" \in DOMAIN pub

\* the year-filter recomputation throws a TypeError: pub.year of a null
\* entry in the filter callback, or colleges.forEach of a string on a
\* record of the filtered year
filterThrows(allPublications, filterYear) ==
    \/ \E i \in 1..Len(allPublications) : isNullRecord(allPublications[i])
    \/ \E i \in 1..Len(allPublications) :
           /\ "collegesText" \in DOMAIN allPublications[i]
           /\ getPubYear(allPublications[i]) = <<filterYear>>

\* the quarter of a month of the year, 1..4
quarterOf(m) ==
    IF 1 <= m /\ m <= 3 THEN 1
    ELSE IF 4 <= m /\ m <= 6 THEN 2
    ELSE IF 7 <= m /\ m <= 9 THEN 3
    ELSE IF 10 <= m /\ m <= 12 THEN 4
    ELSE 0

\* currentQuarter of loadDashboardData, from currentMonth in 1..12
currentQuarterOf(currentMonth) ==
    IF currentMonth >= 1 /\ currentMonth <= 3 THEN 1
    ELSE IF currentMonth >= 4 /\ currentMonth <= 6 THEN 2
    ELSE IF currentMonth >= 7 /\ currentMonth <= 9 THEN 3
    ELSE IF currentMonth >= 10 /\ currentMonth <= 12 THEN 4
    ELSE 1

\* parseInt(pub.month) when month is neither null, undefined nor '':
\* NaN stands for all three of those as well
monthInt(pub) ==
    LET OfValue(v) ==
            IF v.t = "null" \/ (v.t = "str" /\ v.s = <<>>) THEN NaN
            ELSE IF v.t = "num" THEN parseInt(numberToString(v))
            ELSE parseInt(v.s)
    IN  IF "month" \in DOMAIN pub THEN OfValue(pub.month) ELSE NaN

NoCounts == [q1 |-> 0, q2 |-> 0, q3 |-> 0, q4 |-> 0,
             publicationsWithoutMonth |-> 0, publicationsCountedInTotal |-> 0]

\* countPublication that tallies the quarters of the current year beyond
\* the current quarter as well
countPublication_noTruncation(acc, pub, isCurrentYear, currentQuarter) ==
    LET InQuarter(pubQuarter) ==
            IF pubQuarter > 0
            THEN [acc EXCEPT
                    !.q1 = @ + (IF pubQuarter = 1 THEN 1 ELSE 0),
                    !.q2 = @ + (IF pubQuarter = 2 THEN 1 ELSE 0),
                    !.q3 = @ + (IF pubQuarter = 3 THEN 1 ELSE 0),
                    !.q4 = @ + (IF pubQuarter = 4 THEN 1 ELSE 0),
                    !.publicationsCountedInTotal = @ + 1]
            ELSE acc
        OfMonth(m) ==
            IF ~m.nan /\ m.n >= 1 /\ m.n <= 12
            THEN InQuarter(quarterOf(m.n))
            ELSE [acc EXCEPT
                    !.publicationsWithoutMonth = @ + 1,
                    !.publicationsCountedInTotal = @ + (IF isCurrentYear THEN 0 ELSE 1)]
    IN  OfMonth(monthInt(pub))

\* countPublication that puts only an unparseable month in the
\* without-month bucket, not a number outside 1..12
countPublication_dropsOutOfRange(acc, pub, isCurrentYear, currentQuarter) ==
    LET InQuarter(pubQuarter) ==
            IF pubQuarter > 0 /\ (~isCurrentYear \/ pubQuarter <= currentQuarter)
            THEN [acc EXCEPT
                    !.q1 = @ + (IF pubQuarter = 1 THEN 1 ELSE 0),
                    !.q2 = @ + (IF pubQuarter = 2 THEN 1 ELSE 0),
                    !.q3 = @ + (IF pubQuarter = 3 THEN 1 ELSE 0),
                    !.q4 = @ + (IF pubQuarter = 4 THEN 1 ELSE 0),
                    !.publicationsCountedInTotal = @ + 1]
            ELSE acc
        OfMonth(m) ==
            IF ~m.nan
            THEN InQuarter(quarterOf(m.n))
            ELSE [acc EXCEPT
                    !.publicationsWithoutMonth = @ + 1,
                    !.publicationsCountedInTotal = @ + (IF isCurrentYear THEN 0 ELSE 1)]
    IN  OfMonth(monthInt(pub))

\* countPublication taking month 0 for a month of the year
countPublication_acceptsZero(acc, pub, isCurrentYear, currentQuarter) ==
    LET InQuarter(pubQuarter) ==
            IF pubQuarter > 0 /\ (~isCurrentYear \/ pubQuarter <= currentQuarter)
            THEN [acc EXCEPT
                    !.q1 = @ + (IF pubQuarter = 1 THEN 1 ELSE 0),
                    !.q2 = @ + (IF pubQuarter = 2 THEN 1 ELSE 0),
                    !.q3 = @ + (IF pubQuarter = 3 THEN 1 ELSE 0),
                    !.q4 = @ + (IF pubQuarter = 4 THEN 1 ELSE 0),
                    !.publicationsCountedInTotal = @ + 1]
            ELSE acc
        OfMonth(m) ==
            IF ~m.nan /\ m.n >= 0 /\ m.n <= 12
            THEN InQuarter(quarterOf(m.n))
            ELSE [acc EXCEPT
                    !.publicationsWithoutMonth = @ + 1,
                    !.publicationsCountedInTotal = @ + (IF isCurrentYear THEN 0 ELSE 1)]
    IN  OfMonth(monthInt(pub))

\* one step of filteredPublications.forEach(pub => ...) over the quarters
countPublication(acc, pub, isCurrentYear, currentQuarter) ==
    LET InQuarter(pubQuarter) ==
            IF pubQuarter > 0 /\ (~isCurrentYear \/ pubQuarter <= currentQuarter)
            THEN [acc EXCEPT
                    !.q1 = @ + (IF pubQuarter = 1 THEN 1 ELSE 0),
                    !.q2 = @ + (IF pubQuarter = 2 THEN 1 ELSE 0),
                    !.q3 = @ + (IF pubQuarter = 3 THEN 1 ELSE 0),
                    !.q4 = @ + (IF pubQuarter = 4 THEN 1 ELSE 0),
                    !.publicationsCountedInTotal = @ + 1]
            ELSE acc
        OfMonth(m) ==
            IF ~m.nan /\ m.n >= 1 /\ m.n <= 12
            THEN InQuarter(quarterOf(m.n))
            ELSE [acc EXCEPT
                    !.publicationsWithoutMonth = @ + 1,
                    !.publicationsCountedInTotal = @ + (IF isCurrentYear THEN 0 ELSE 1)]
    IN  OfMonth(monthInt(pub))

RECURSIVE countQuarters(_, _, _)
countQuarters(pubs, isCurrentYear, currentQuarter) ==
    IF pubs = <<>> THEN NoCounts
    ELSE countPublication(
             countQuarters(SubSeq(pubs, 1, Len(pubs) - 1), isCurrentYear, currentQuarter),
             pubs[Len(pubs)], isCurrentYear, currentQuarter)

CollegeKeys ==
    {"engineering", "informatics_computing", "engineering_technology", "architecture_design"}

\* occurrences looking at the first entry only
occurrences_firstOnly(colleges, key) ==
    IF colleges # <<>> /\ Head(colleges) = key THEN 1 ELSE 0

\* the number of entries of a colleges array equal to key
RECURSIVE occurrences(_, _)
occurrences(colleges, key) ==
    IF colleges = <<>> THEN 0
    ELSE occurrences(Tail(colleges), key) + (IF Head(colleges) = key THEN 1 ELSE 0)

\* pub.colleges || []
collegesOf(pub) == IF "colleges" \in DOMAIN pub THEN pub.colleges ELSE <<>>

RECURSIVE countCollege(_, _)
countCollege(pubs, key) ==
    IF pubs = <<>> THEN 0
    ELSE countCollege(Tail(pubs), key) + occurrences(collegesOf(Head(pubs)), key)

collegeCounts(pubs) == [key \in CollegeKeys |-> countCollege(pubs, key)]

\* { ...base, ...over }: object spread; spreading undefined adds nothing
spread(base, over) ==
    [k \in DOMAIN base \cup DOMAIN over |->
        IF k \in DOMAIN over THEN over[k] ELSE base[k]]

\* the "Quarterly count mismatch" diagnostic: TRUE when it is logged
quarterlyMismatch(allPublications, filterYear, t) ==
    LET Warned(filtered, isCurrentYear, c) ==
            /\ c.q1 + c.q2 + c.q3 + c.q4 + c.publicationsWithoutMonth
                   # (IF isCurrentYear THEN c.publicationsCountedInTotal
                      ELSE Len(filtered))
            /\ ~isCurrentYear
        Counted(filtered, isCurrentYear, currentQuarter) ==
            Warned(filtered, isCurrentYear,
                   countQuarters(filtered, isCurrentYear, currentQuarter))
    IN  Counted(filteredPublications(allPublications, filterYear),
                filterYear = getFullYear(t),
                currentQuarterOf(getMonth(t) + 1))

\* recomputed taking the total from the quarters in every year
recomputed_countedTotal(allPublications, filterYear, t) ==
    LET Result(filtered, isCurrentYear, c) ==
            [total_publications |-> c.q1 + c.q2 + c.q3 + c.q4,
             quarterly_counts |-> [q1 |-> c.q1, q2 |-> c.q2, q3 |-> c.q3, q4 |-> c.q4],
             college_counts |-> collegeCounts(filtered)]
        Counted(filtered, isCurrentYear, currentQuarter) ==
            Result(filtered, isCurrentYear,
                   countQuarters(filtered, isCurrentYear, currentQuarter))
    IN  Counted(filteredPublications(allPublications, filterYear),
                filterYear = getFullYear(t),
                currentQuarterOf(getMonth(t) + 1))

\* recomputed tallying the colleges of the records counted in the total only
recomputed_collegesOfCounted(allPublications, filterYear, t) ==
    LET Result(filtered, isCurrentYear, c, counted) ==
            [total_publications |->
                 IF isCurrentYear THEN c.publicationsCountedInTotal ELSE Len(filtered),
             quarterly_counts |-> [q1 |-> c.q1, q2 |-> c.q2, q3 |-> c.q3, q4 |-> c.q4],
             college_counts |-> collegeCounts(counted)]
        Counted(filtered, isCurrentYear, currentQuarter) ==
            Result(filtered, isCurrentYear,
                   countQuarters(filtered, isCurrentYear, currentQuarter),
                   SelectSeq(filtered,
                             LAMBDA pub :
                                 countPublication(NoCounts, pub, isCurrentYear,
                                                  currentQuarter
                                                 ).publicationsCountedInTotal = 1))
    IN  Counted(filteredPublications(allPublications, filterYear),
                filterYear = getFullYear(t),
                currentQuarterOf(getMonth(t) + 1))

\* the recomputed total_publications, quarterly_counts and college_counts
recomputed(allPublications, filterYear, t) ==
    LET Result(filtered, isCurrentYear, c) ==
            [total_publications |->
                 IF isCurrentYear THEN c.publicationsCountedInTotal ELSE Len(filtered),
             quarterly_counts |-> [q1 |-> c.q1, q2 |-> c.q2, q3 |-> c.q3, q4 |-> c.q4],
             college_counts |-> collegeCounts(filtered)]
        Counted(filtered, isCurrentYear, currentQuarter) ==
            Result(filtered, isCurrentYear,
                   countQuarters(filtered, isCurrentYear, currentQuarter))
    IN  Counted(filteredPublications(allPublications, filterYear),
                filterYear = getFullYear(t),
                currentQuarterOf(getMonth(t) + 1))

\* filteredStats that builds a new object instead of spreading the cached one
filteredStats_noSpread(dashboardStats, allPublications, filterYear, t) ==
    recomputed(allPublications, filterYear, t)

\* the dashboardStats object built when the year parses:
\* dashboardStats is undefined (<<>>) or a stats object
filteredStats(dashboardStats, allPublications, filterYear, t) ==
    spread(IF dashboardStats = Undefined THEN <<>> ELSE dashboardStats[1],
           recomputed(allPublications, filterYear, t))

(***************************************************************************)
(* The data the bulk endpoint serves, and what an earlier session may     *)
(* have left in localStorage.                                              *)
(***************************************************************************)
StatsA ==
    [total_publications |-> 6,
     college_counts |-> [engineering |-> 3, informatics_computing |-> 1,
                         engineering_technology |-> 0, architecture_design |-> 1],
     quarterly_counts |-> [q1 |-> 2, q2 |-> 1, q3 |-> 0, q4 |-> 0],
     department_counts |-> [CE |-> 2, CS |-> 1],
     department_quarterly_counts |-> [CE |-> [q1 |-> 1, q2 |-> 1, q3 |-> 0, q4 |-> 0]],
     earliest_year |-> 2025]

StatsB ==
    [total_publications |-> 1,
     college_counts |-> [engineering |-> 1, informatics_computing |-> 0,
                         engineering_technology |-> 0, architecture_design |-> 0],
     quarterly_counts |-> [q1 |-> 1, q2 |-> 0, q3 |-> 0, q4 |-> 0],
     department_counts |-> [CE |-> 1]]

PubsA ==
    << [year |-> SNum(2026), month |-> SNum(1), colleges |-> <<"engineering">>],
       [year |-> SStr(<<"2", "0", "2", "6", "/", "0", "5">>), month |-> SStr(<<"5">>),
        colleges |-> <<"engineering", "informatics_computing">>],
       [year |-> SNum(2025), month |-> SNull, colleges |-> <<"engineering", "graduate_school">>],
       [year |-> SStr(<<"2", "0", "2", "5">>), month |-> SNum(13)],
       [year |-> SNull, month |-> SNum(2), colleges |-> <<"architecture_design">>],
       [year |-> SNum(2026), colleges |-> <<>>] >>

PubsB ==
    << [year |-> SNum(2026), month |-> SNum(3), colleges |-> <<"engineering">>] >>

BodyA == [dashboard_stats |-> StatsA, publications |-> PubsA]
BodyB == [dashboard_stats |-> StatsB, publications |-> PubsB]
\* an error field that is present but empty
BodyEmptyError == [dashboard_stats |-> StatsB, publications |-> PubsA, error |-> ""]
BodyError == [error |-> "Failed to load publications"]
BodyErrorWithData == [dashboard_stats |-> StatsA, publications |-> PubsA, error |-> "partial"]
BodyNoStats == [publications |-> PubsB]

\* stats whose earliest year is the current year: the selector they build
\* offers 2026 alone
StatsC ==
    [total_publications |-> 2,
     college_counts |-> [engineering |-> 1, informatics_computing |-> 1,
                         engineering_technology |-> 0, architecture_design |-> 0],
     quarterly_counts |-> [q1 |-> 2, q2 |-> 0, q3 |-> 0, q4 |-> 0],
     department_counts |-> [CE |-> 1, CS |-> 1],
     earliest_year |-> 2026]

BodyC == [dashboard_stats |-> StatsC, publications |-> PubsB]

\* how a fetch of /all-data can settle: the promise rejects (net = FALSE), or
\* a response arrives with response.ok, whose body parses as JSON or not
NetworkError == [net |-> FALSE, ok |-> FALSE, json |-> FALSE, data |-> JNull]
HttpFailure(body) == [net |-> TRUE, ok |-> FALSE, json |-> TRUE, data |-> JObject(body)]
HttpOkNotJson == [net |-> TRUE, ok |-> TRUE, json |-> FALSE, data |-> JNull]
HttpOk(v) == [net |-> TRUE, ok |-> TRUE, json |-> TRUE, data |-> v]
NoOutcome == [net |-> FALSE, ok |-> FALSE, json |-> FALSE, data |-> JNull]

FetchOutcomes ==
    {NetworkError, HttpFailure(BodyError), HttpFailure(BodyA), HttpOkNotJson, HttpOk(JNull)}
    \cup {HttpOk(JObject(b)) : b \in {BodyA, BodyB, BodyEmptyError, BodyError,
                                      BodyErrorWithData, BodyNoStats}}

\* the values a year-filter change event can carry
YearInputs ==
    {<<>>, <<"2", "0", "2", "6">>, <<"2", "0", "2", "5">>, <<"a", "l", "l">>}

\* what localStorage may hold when the session starts
StoredVersions == {toString(1), toString(CACHE_VERSION), <<"v", "2">>}
StoredTimestamps == {<<>>, toString(0), toString(TickMs), <<"n", "o", "w">>}
StoredData == {EmptyText, GarbageText, JSONstringify(JNull), JSONstringify(JObject(BodyB))}

InitialStores ==
    { [k \in ks |-> IF k = CACHE_KEY THEN d
                    ELSE IF k = CACHE_TIMESTAMP_KEY THEN ts ELSE v] :
        ks \in SUBSET {CACHE_KEY, CACHE_TIMESTAMP_KEY, CACHE_VERSION_KEY},
        v \in StoredVersions, ts \in StoredTimestamps, d \in StoredData }

\* Stores and responses of a session in which loads overlap: nothing stored,
\* an envelope written more than 24 hours ago, an envelope written under
\* version 1; the fetch fails or answers one of three bodies.
OverlapStores ==
    { <<>>,
      [k \in {CACHE_KEY, CACHE_TIMESTAMP_KEY, CACHE_VERSION_KEY} |->
          IF k = CACHE_KEY THEN JSONstringify(JObject(BodyA))
          ELSE IF k = CACHE_TIMESTAMP_KEY THEN toString(0)
          ELSE toString(CACHE_VERSION)],
      [k \in {CACHE_KEY, CACHE_TIMESTAMP_KEY, CACHE_VERSION_KEY} |->
          IF k = CACHE_KEY THEN JSONstringify(JObject(BodyB))
          ELSE IF k = CACHE_TIMESTAMP_KEY THEN toString(TickMs)
          ELSE toString(1)] }

OverlapOutcomes ==
    {NetworkError} \cup {HttpOk(JObject(b)) : b \in {BodyA, BodyC, BodyNoStats}}

(***************************************************************************)
(* Publication records as the bulk endpoint may serve them: every shape    *)
(* of year and month the aggregation has a branch for.                     *)
(***************************************************************************)
\* the number of publications of a served list
MaxPubs == 2

FilterRecords ==
    { \* the current year, 2026
      [year |-> SNum(2026), month |-> SHalf(1), colleges |-> <<"engineering">>],
      [year |-> SStr(<<"2", "0", "2", "6", "/", "0", "5">>), month |-> SStr(<<"5">>),
       colleges |-> <<"engineering", "informatics_computing">>],
      [year |-> SNum(2026), month |-> SNum(11), colleges |-> <<"architecture_design">>],
      [year |-> SStr(<<" ", "2", "0", "2", "6", " ">>), colleges |-> <<>>],
      [year |-> SHalf(2026), month |-> SNum(0)],
      [year |-> SNum(2026), month |-> SStr(<<"Q", "1">>),
       colleges |-> <<"engineering_technology">>],
      \* an earlier year, 2025
      [year |-> SNum(2025), month |-> SNull, colleges |-> <<"engineering", "graduate_school">>],
      [year |-> SStr(<<"2", "0", "2", "5">>), month |-> SNum(13)],
      [year |-> SStr(<<"2", "0", "2", "5", " ", "/", "Q", "4">>), month |-> SNum(-1),
       colleges |-> <<"informatics_computing">>],
      [year |-> SNum(2025), month |-> SStr(<<>>), colleges |-> <<"Engineering">>],
      [year |-> SStr(<<"2", "0", "2", "5", "a">>), month |-> SStr(<<" ", "1", "2">>),
       colleges |-> <<"engineering_technology", "engineering_technology">>],
      \* no year
      [year |-> SNull, month |-> SNum(2), colleges |-> <<"architecture_design">>],
      [year |-> SStr(<<>>), month |-> SNum(4), colleges |-> <<"engineering_technology">>],
      [year |-> SStr(<<"/", "2", "0", "2", "6">>), month |-> SNum(1),
       colleges |-> <<"engineering">>],
      [month |-> SNum(3), colleges |-> <<"informatics_computing">>] }

\* the publications arrays of at most MaxPubs of these records
PublicationLists == UNION { [1..n -> FilterRecords] : n \in 0..MaxPubs }

\* the lists a response may carry
ServedLists == PublicationLists \cup {PubsA}

\* a successful response carrying the publications pubs
FilterBody(pubs) == [dashboard_stats |-> StatsA, publications |-> pubs]

(***************************************************************************)
(* Rendering.  The page is the part of the document the loader writes:     *)
(* the stats last handed to updateDashboard, the loading overlay, and the  *)
(* year selector (its value and the years it offers).                      *)
(***************************************************************************)
Page == [rendered |-> rendered, loadingOverlay |-> loadingOverlay,
         yearFilter |-> yearFilter, yearOptions |-> yearOptions]

\* the document as served: nothing rendered, the selector on "All Years"
FreshPage == [rendered |-> <<>>, loadingOverlay |-> FALSE,
              yearFilter |-> <<>>, yearOptions |-> {}]

showLoadingState(p) == [p EXCEPT !.loadingOverlay = TRUE]
hideLoadingState(p) == [p EXCEPT !.loadingOverlay = FALSE]

\* the years offered by the selector after updateDashboard(data)
startYearOf(data, currentYear) ==
    IF "earliest_year" \in DOMAIN data /\ data.earliest_year # 0
    THEN IF data.earliest_year < currentYear THEN data.earliest_year ELSE currentYear
    ELSE currentYear - 10

\* updateDashboard restoring the selected value whatever the options are
updateDashboard_keepsSelection(p, data, t) ==
    LET Rebuilt(options) ==
            [threw |-> FALSE,
             page |-> [rendered |-> data, loadingOverlay |-> FALSE,
                       yearFilter |-> p.yearFilter,
                       yearOptions |-> options]]
        Options(currentYear) == Rebuilt(startYearOf(data[1], currentYear) .. currentYear)
    IN  IF data = Undefined THEN [threw |-> TRUE, page |-> p]
        ELSE Options(getFullYear(t))

\* updateDashboard leaving the rebuilt selector on "All Years"
updateDashboard_resetsSelection(p, data, t) ==
    LET Rebuilt(options) ==
            [threw |-> FALSE,
             page |-> [rendered |-> data, loadingOverlay |-> FALSE,
                       yearFilter |-> <<>>,
                       yearOptions |-> options]]
        Options(currentYear) == Rebuilt(startYearOf(data[1], currentYear) .. currentYear)
    IN  IF data = Undefined THEN [threw |-> TRUE, page |-> p]
        ELSE Options(getFullYear(t))

\* updateDashboard(data): data is undefined (<<>>) or <<stats>>.  Reading a
\* property of undefined throws before anything is written.
updateDashboard(p, data, t) ==
    LET Rebuilt(options) ==
            [threw |-> FALSE,
             page |-> [rendered |-> data, loadingOverlay |-> FALSE,
                       yearFilter |->
                           IF p.yearFilter # <<>>
                              /\ \E y \in options : toString(y) = p.yearFilter
                           THEN p.yearFilter ELSE <<>>,
                       yearOptions |-> options]]
        Options(currentYear) == Rebuilt(startYearOf(data[1], currentYear) .. currentYear)
    IN  IF data = Undefined THEN [threw |-> TRUE, page |-> p]
        ELSE Options(getFullYear(t))

ZeroStats ==
    [total_publications |-> 0,
     college_counts |-> [engineering |-> 0, informatics_computing |-> 0,
                         engineering_technology |-> 0, architecture_design |-> 0],
     department_counts |-> <<>>,
     quarterly_counts |-> [q1 |-> 0, q2 |-> 0, q3 |-> 0, q4 |-> 0]]

(***************************************************************************)
(* The loaders.  Each returns what it leaves behind: the page, whether a   *)
(* fetch was issued, whether an error escaped (threw), and the branch      *)
(* taken (path).                                                           *)
(***************************************************************************)
\* data.error is truthy: present and not the empty string
hasError(body) == "error" \in DOMAIN body /\ body.error # ""

\* loadAllData taking the cache branch on the validity check alone: data
\* that cannot be read is rendered as the zeros
loadAllDataStart_trustsValidity(ls, p, t) ==
    LET Rendered(r) ==
            [page |-> r.page, fetch |-> FALSE, threw |-> r.threw, path |-> "cache"]
        Cached(cachedData) ==
            IF Truthy(cachedData)
            THEN Rendered(updateDashboard(p, Prop(cachedData.obj, "dashboard_stats"), t))
            ELSE Rendered(updateDashboard(p, Def(ZeroStats), t))
    IN  IF isCacheValid(ls, t) THEN Cached(getCachedData(ls))
        ELSE [page |-> showLoadingState(p), fetch |-> TRUE, threw |-> FALSE,
              path |-> "fetch"]

\* loadAllData up to its await: the cache branch, or the start of the fetch
loadAllDataStart(ls, p, t) ==
    LET Rendered(r) ==
            [page |-> r.page, fetch |-> FALSE, threw |-> r.threw, path |-> "cache"]
        Cached(cachedData) ==
            IF Truthy(cachedData)
            THEN Rendered(updateDashboard(p, Prop(cachedData.obj, "dashboard_stats"), t))
            ELSE [page |-> showLoadingState(p), fetch |-> TRUE, threw |-> FALSE,
                  path |-> "fetch"]
    IN  IF isCacheValid(ls, t) THEN Cached(getCachedData(ls))
        ELSE [page |-> showLoadingState(p), fetch |-> TRUE, threw |-> FALSE,
              path |-> "fetch"]

\* the catch block falling back to the cache only while it is valid
loadAllDataCatch_validOnly(ls, p, t, persisted) ==
    LET Rendered(r, path) ==
            [ls |-> ls, page |-> r.page, threw |-> r.threw, path |-> path,
             persisted |-> persisted]
        Cached(p1, cachedData) ==
            IF isCacheValid(ls, t) /\ Truthy(cachedData)
            THEN Rendered(updateDashboard(p1, Prop(cachedData.obj, "dashboard_stats"), t),
                          "expired_cache")
            ELSE Rendered(updateDashboard(p1, Def(ZeroStats), t), "zero")
    IN  Cached(hideLoadingState(p), getCachedData(ls))

\* the catch block writing a new timestamp when it falls back to the cache
loadAllDataCatch_touchesTimestamp(ls, p, t, persisted) ==
    LET Rendered(ls1, r, path) ==
            [ls |-> ls1, page |-> r.page, threw |-> r.threw, path |-> path,
             persisted |-> persisted]
        Cached(p1, cachedData) ==
            IF Truthy(cachedData)
            THEN Rendered(setItem(ls, CACHE_TIMESTAMP_KEY, toString(t)),
                          updateDashboard(p1, Prop(cachedData.obj, "dashboard_stats"), t),
                          "expired_cache")
            ELSE Rendered(ls, updateDashboard(p1, Def(ZeroStats), t), "zero")
    IN  Cached(hideLoadingState(p), getCachedData(ls))

\* the catch block of loadAllData
loadAllDataCatch(ls, p, t, persisted) ==
    LET Rendered(r, path) ==
            [ls |-> ls, page |-> r.page, threw |-> r.threw, path |-> path,
             persisted |-> persisted]
        Cached(p1, cachedData) ==
            IF Truthy(cachedData)
            THEN Rendered(updateDashboard(p1, Prop(cachedData.obj, "dashboard_stats"), t),
                          "expired_cache")
            ELSE Rendered(updateDashboard(p1, Def(ZeroStats), t), "zero")
    IN  Cached(hideLoadingState(p), getCachedData(ls))

\* the fetch of outcome o is an error for loadAllData: fetch rejected,
\* !response.ok, response.json() rejected, data.error truthy, or data null
\* (reading null.error throws)
fetchFailed(o) ==
    ~o.net \/ ~o.ok \/ ~o.json \/ o.data.type = "null" \/ hasError(o.data.obj)

\* loadAllData rendering a successful response without persisting it
loadAllDataSettle_noPersist(ls, p, t, o) ==
    LET Rendered(r) ==
            IF r.threw THEN loadAllDataCatch(ls, p, t, FALSE)
            ELSE [ls |-> ls, page |-> r.page, threw |-> FALSE,
                  path |-> "success", persisted |-> FALSE]
    IN  IF fetchFailed(o) THEN loadAllDataCatch(ls, p, t, FALSE)
        ELSE Rendered(updateDashboard(p, Prop(o.data.obj, "dashboard_stats"), t))

\* loadAllData persisting a response only when it carries dashboard_stats
loadAllDataSettle_checksStats(ls, p, t, o) ==
    LET Rendered(ls1, r) ==
            IF r.threw THEN loadAllDataCatch(ls, p, t, FALSE)
            ELSE [ls |-> ls1, page |-> r.page, threw |-> FALSE,
                  path |-> "success", persisted |-> TRUE]
    IN  IF fetchFailed(o) THEN loadAllDataCatch(ls, p, t, FALSE)
        ELSE Rendered(setCachedData(ls, o.data, t),
                      updateDashboard(p, Prop(o.data.obj, "dashboard_stats"), t))

\* loadAllData from the moment its fetch settles with outcome o
loadAllDataSettle(ls, p, t, o) ==
    LET Rendered(ls1, r) ==
            IF r.threw THEN loadAllDataCatch(ls1, p, t, TRUE)
            ELSE [ls |-> ls1, page |-> r.page, threw |-> FALSE,
                  path |-> "success", persisted |-> TRUE]
    IN  IF fetchFailed(o) THEN loadAllDataCatch(ls, p, t, FALSE)
        ELSE Rendered(setCachedData(ls, o.data, t),
                      updateDashboard(p, Prop(o.data.obj, "dashboard_stats"), t))

\* loadAllData from the moment its fetch settles with a response o that is
\* no error, when the k-th setItem of setCachedData throws: the exception is
\* caught by the catch block
loadAllDataSettleWriteFails(ls, p, t, o, k) ==
    loadAllDataCatch(setCachedDataThrows(ls, o.data, t, k), p, t, FALSE)

\* loadDashboardData refetching when the cache is no longer valid
loadDashboardData_requiresValid(ls, p, t, year) ==
    LET Rendered(r) ==
            [page |-> r.page, fetch |-> FALSE, threw |-> r.threw, path |-> "all_years"]
        Cached(cachedData) ==
            IF ~Truthy(cachedData) \/ ~isCacheValid(ls, t)
            THEN [page |-> showLoadingState(p), fetch |-> TRUE, threw |-> FALSE,
                  path |-> "no_cache"]
            ELSE Rendered(updateDashboard(p, Prop(cachedData.obj, "dashboard_stats"), t))
    IN  Cached(getCachedData(ls))

\* loadDashboardData without the isNaN(filterYear) return: NaN equals no
\* year, so the aggregation runs over an empty selection
loadDashboardData_filtersNaN(ls, p, t, year) ==
    LET Rendered(r, path) ==
            [page |-> r.page, fetch |-> FALSE, threw |-> r.threw, path |-> path]
        Filtered(dashboardStats, allPublications, filterYear) ==
            IF year = <<>>
            THEN Rendered(updateDashboard(p, dashboardStats, t), "all_years")
            ELSE IF filterYear.nan
            THEN Rendered(
                     updateDashboard(
                         p, Def(filteredStats(dashboardStats, <<>>, 0, t)), t),
                     "filtered")
            ELSE Rendered(
                     updateDashboard(
                         p, Def(filteredStats(dashboardStats, allPublications,
                                              filterYear.n, t)), t),
                     "filtered")
        Cached(cachedData) ==
            IF ~Truthy(cachedData)
            THEN [loadAllDataStart(ls, p, t) EXCEPT !.path = "no_cache"]
            ELSE Filtered(Prop(cachedData.obj, "dashboard_stats"),
                          IF "publications" \in DOMAIN cachedData.obj
                          THEN cachedData.obj.publications ELSE <<>>,
                          parseInt(year))
    IN  Cached(getCachedData(ls))

\* loadDashboardData rendering the all-zero stats instead of loading when
\* there is no cache
loadDashboardData_noReload(ls, p, t, year) ==
    LET Rendered(r, path) ==
            [page |-> r.page, fetch |-> FALSE, threw |-> r.threw, path |-> path]
        Filtered(dashboardStats, allPublications, filterYear) ==
            IF year = <<>>
            THEN Rendered(updateDashboard(p, dashboardStats, t), "all_years")
            ELSE IF filterYear.nan
            THEN Rendered(updateDashboard(p, dashboardStats, t), "not_a_year")
            ELSE Rendered(
                     updateDashboard(
                         p, Def(filteredStats(dashboardStats, allPublications,
                                              filterYear.n, t)), t),
                     "filtered")
        Cached(cachedData) ==
            IF ~Truthy(cachedData)
            THEN Rendered(updateDashboard(p, Def(ZeroStats), t), "no_cache")
            ELSE Filtered(Prop(cachedData.obj, "dashboard_stats"),
                          IF "publications" \in DOMAIN cachedData.obj
                          THEN cachedData.obj.publications ELSE <<>>,
                          parseInt(year))
    IN  Cached(getCachedData(ls))

\* loadDashboardData whose total is not reset between calls: it starts from
\* the total the page shows
loadDashboardData_accumulates(ls, p, t, year) ==
    LET Rendered(r, path) ==
            [page |-> r.page, fetch |-> FALSE, threw |-> r.threw, path |-> path]
        Kept(stats) ==
            IF p.rendered = <<>> THEN stats
            ELSE [stats EXCEPT !.total_publications =
                                   @ + p.rendered[1].total_publications]
        Filtered(dashboardStats, allPublications, filterYear) ==
            IF year = <<>>
            THEN Rendered(updateDashboard(p, dashboardStats, t), "all_years")
            ELSE IF filterYear.nan
            THEN Rendered(updateDashboard(p, dashboardStats, t), "not_a_year")
            ELSE Rendered(
                     updateDashboard(
                         p, Def(Kept(filteredStats(dashboardStats, allPublications,
                                                   filterYear.n, t))), t),
                     "filtered")
        Cached(cachedData) ==
            IF ~Truthy(cachedData)
            THEN [loadAllDataStart(ls, p, t) EXCEPT !.path = "no_cache"]
            ELSE Filtered(Prop(cachedData.obj, "dashboard_stats"),
                          IF "publications" \in DOMAIN cachedData.obj
                          THEN cachedData.obj.publications ELSE <<>>,
                          parseInt(year))
    IN  Cached(getCachedData(ls))

\* loadDashboardData ignoring a trigger without cache while the loading
\* state is shown
loadDashboardData_ignoresWhileLoading(ls, p, t, year) ==
    LET Rendered(r, path) ==
            [page |-> r.page, fetch |-> FALSE, threw |-> r.threw, path |-> path]
        Filtered(dashboardStats, allPublications, filterYear) ==
            IF year = <<>>
            THEN Rendered(updateDashboard(p, dashboardStats, t), "all_years")
            ELSE IF filterYear.nan
            THEN Rendered(updateDashboard(p, dashboardStats, t), "not_a_year")
            ELSE Rendered(
                     updateDashboard(
                         p, Def(filteredStats(dashboardStats, allPublications,
                                              filterYear.n, t)), t),
                     "filtered")
        Cached(cachedData) ==
            IF ~Truthy(cachedData) /\ p.loadingOverlay
            THEN [page |-> p, fetch |-> FALSE, threw |-> FALSE, path |-> "no_cache"]
            ELSE IF ~Truthy(cachedData)
            THEN [loadAllDataStart(ls, p, t) EXCEPT !.path = "no_cache"]
            ELSE Filtered(Prop(cachedData.obj, "dashboard_stats"),
                          IF "publications" \in DOMAIN cachedData.obj
                          THEN cachedData.obj.publications ELSE <<>>,
                          parseInt(year))
    IN  Cached(getCachedData(ls))

\* loadDashboardData loading again when the version marker is not current
loadDashboardData_checksVersion(ls, p, t, year) ==
    LET Rendered(r, path) ==
            [page |-> r.page, fetch |-> FALSE, threw |-> r.threw, path |-> path]
        Filtered(dashboardStats, allPublications, filterYear) ==
            IF year = <<>>
            THEN Rendered(updateDashboard(p, dashboardStats, t), "all_years")
            ELSE IF filterYear.nan
            THEN Rendered(updateDashboard(p, dashboardStats, t), "not_a_year")
            ELSE Rendered(
                     updateDashboard(
                         p, Def(filteredStats(dashboardStats, allPublications,
                                              filterYear.n, t)), t),
                     "filtered")
        Stale(version) == version.nan \/ version.n # CACHE_VERSION
        Cached(cachedData) ==
            IF ~Truthy(cachedData) \/ Stale(storedVersion(ls))
            THEN [page |-> showLoadingState(p), fetch |-> TRUE, threw |-> FALSE,
                  path |-> "no_cache"]
            ELSE Filtered(Prop(cachedData.obj, "dashboard_stats"),
                          IF "publications" \in DOMAIN cachedData.obj
                          THEN cachedData.obj.publications ELSE <<>>,
                          parseInt(year))
    IN  Cached(getCachedData(ls))

\* loadDashboardData without the try around the recomputation
loadDashboardData_rethrows(ls, p, t, year) ==
    LET Rendered(r, path) ==
            [page |-> r.page, fetch |-> FALSE, threw |-> r.threw, path |-> path]
        Filtered(dashboardStats, allPublications, filterYear) ==
            IF year = <<>>
            THEN Rendered(updateDashboard(p, dashboardStats, t), "all_years")
            ELSE IF filterYear.nan
            THEN Rendered(updateDashboard(p, dashboardStats, t), "not_a_year")
            ELSE IF filterThrows(allPublications, filterYear.n)
            THEN [page |-> p, fetch |-> FALSE, threw |-> TRUE, path |-> "filter_threw"]
            ELSE Rendered(
                     updateDashboard(
                         p, Def(filteredStats(dashboardStats, allPublications,
                                              filterYear.n, t)), t),
                     "filtered")
        Cached(cachedData) ==
            IF ~Truthy(cachedData)
            THEN [loadAllDataStart(ls, p, t) EXCEPT !.path = "no_cache"]
            ELSE Filtered(Prop(cachedData.obj, "dashboard_stats"),
                          IF "publications" \in DOMAIN cachedData.obj
                          THEN cachedData.obj.publications ELSE <<>>,
                          parseInt(year))
    IN  Cached(getCachedData(ls))

\* loadDashboardData(year) up to its first await
loadDashboardData(ls, p, t, year) ==
    LET Rendered(r, path) ==
            [page |-> r.page, fetch |-> FALSE, threw |-> r.threw, path |-> path]
        Filtered(dashboardStats, allPublications, filterYear) ==
            IF year = <<>>
            THEN Rendered(updateDashboard(p, dashboardStats, t), "all_years")
            ELSE IF filterYear.nan
            THEN Rendered(updateDashboard(p, dashboardStats, t), "not_a_year")
            ELSE IF filterThrows(allPublications, filterYear.n)
            THEN Rendered(updateDashboard(p, dashboardStats, t), "filter_threw")
            ELSE Rendered(
                     updateDashboard(
                         p, Def(filteredStats(dashboardStats, allPublications,
                                              filterYear.n, t)), t),
                     "filtered")
        Cached(cachedData) ==
            IF ~Truthy(cachedData)
            THEN [loadAllDataStart(ls, p, t) EXCEPT !.path = "no_cache"]
            ELSE Filtered(Prop(cachedData.obj, "dashboard_stats"),
                          IF "publications" \in DOMAIN cachedData.obj
                          THEN cachedData.obj.publications ELSE <<>>,
                          parseInt(year))
    IN  Cached(getCachedData(ls))

(***************************************************************************)
(* The export-report page.  A preview row is a number.  The document part  *)
(* is the preview table (its state and the rows in it), whether the        *)
(* summary and the pagination bar are displayed, the export message, and   *)
(* the value of the year filter; fiscal year, quarter and campus are       *)
(* handled as the year.  The requests part says whether the preview and    *)
(* the export request are pending (their buttons are disabled meanwhile),  *)
(* what the most recent settled preview request answered (<<>> when none   *)
(* has settled or it failed) and the body of the most recent export.       *)
(***************************************************************************)
PREVIEW_PAGE_SIZE == 20

FreshReportPage ==
    [table |-> "initial", rows |-> <<>>, summary |-> FALSE, pagination |-> FALSE,
     message |-> "", year |-> ""]

NoReportRequests ==
    [preview |-> FALSE, export |-> FALSE, previewed |-> <<>>, exported |-> <<>>]

\* the module state and document of reports.js as loaded
ReportLoaded ==
    /\ lastPreviewPublications = <<>>
    /\ currentPreviewPage = 1
    /\ reportPage = FreshReportPage
    /\ reportRequests = NoReportRequests

\* Math.ceil(total / PREVIEW_PAGE_SIZE)
totalPagesOf(total) == (total + PREVIEW_PAGE_SIZE - 1) \div PREVIEW_PAGE_SIZE

\* lastPreviewPublications.slice(start, end) of a page
pageSlice(pubs, page) ==
    SubSeq(pubs, (page - 1) * PREVIEW_PAGE_SIZE + 1,
           IF page * PREVIEW_PAGE_SIZE < Len(pubs) THEN page * PREVIEW_PAGE_SIZE
           ELSE Len(pubs))

\* renderPreviewPage(page) with lastPreviewPublications = last (<<>> for
\* null, <<pubs>> for a list)
renderPreviewPage(pg, last, cur, page) ==
    IF last = <<>> THEN [cur |-> cur, pg |-> pg]
    ELSE [cur |-> page,
          pg |-> [pg EXCEPT !.table = "rows", !.rows = pageSlice(last[1], page)]]

\* renderPagination(): the bar is hidden for a single page, displayed otherwise
renderPagination(pg, last) ==
    IF last = <<>> THEN pg
    ELSE [pg EXCEPT !.pagination = Len(last[1]) > PREVIEW_PAGE_SIZE]

\* the catch callback of loadPreview
previewCatch(pg) ==
    [pg EXCEPT !.table = "error", !.rows = <<>>, !.summary = FALSE,
               !.pagination = FALSE]

\* the then callback of loadPreview for a body with these publications
previewThen(pg, cur, pubs) ==
    LET Shown(r) == [last |-> <<pubs>>, cur |-> r.cur,
                     pg |-> renderPagination(r.pg, <<pubs>>)]
    IN  IF pubs = <<>>
        THEN [last |-> <<pubs>>, cur |-> cur,
              pg |-> [pg EXCEPT !.table = "empty", !.rows = <<>>, !.summary = TRUE,
                                !.pagination = FALSE]]
        ELSE Shown(renderPreviewPage([pg EXCEPT !.summary = TRUE], <<pubs>>, cur, 1))

\* the lists a preview may answer, and how the preview request settles:
\* rejected, not ok or with a body that is no object, or ok with a list
ReportLists ==
    { <<>>, <<1, 2>>, <<3>>, [i \in 1..(PREVIEW_PAGE_SIZE + 1) |-> 100 + i] }

PreviewOutcomes ==
    {[ok |-> FALSE, publications |-> <<>>]}
    \cup {[ok |-> TRUE, publications |-> pubs] : pubs \in ReportLists}

ReportYears == {"", "2026"}

(***************************************************************************)
(* The state machine.                                                      *)
(***************************************************************************)
\* What the last handler did: the branch it took (path), whether an error
\* escaped it (threw), whether it called setCachedData (persisted), its
\* input (year, outcome), and what isCacheValid() and getCachedData() gave
\* on its entry (valid, cached).
Event(op, path, threw, persisted, year, outcome) ==
    [op |-> op, path |-> path, threw |-> threw, persisted |-> persisted,
     year |-> year, outcome |-> outcome,
     valid |-> isCacheValid(localStorage, now),
     cached |-> Truthy(getCachedData(localStorage))]

SetPage(p) ==
    /\ rendered' = p.rendered
    /\ loadingOverlay' = p.loadingOverlay
    /\ yearFilter' = p.yearFilter
    /\ yearOptions' = p.yearOptions

Init ==
    /\ localStorage \in InitialStores
    /\ sessionStorage = {}
    /\ pageLoaded = FALSE
    /\ rendered = FreshPage.rendered
    /\ loadingOverlay = FreshPage.loadingOverlay
    /\ yearFilter = FreshPage.yearFilter
    /\ yearOptions = FreshPage.yearOptions
    /\ inflight = 0
    /\ now = StartMs
    /\ lastEvent = [op |-> "none", path |-> "none", threw |-> FALSE,
                    persisted |-> FALSE, year |-> <<>>, outcome |-> NoOutcome,
                    valid |-> FALSE, cached |-> FALSE]
    /\ ReportLoaded

\* the DOMContentLoaded handler: loadAllData() on the document as served
DOMContentLoaded ==
    /\ ~pageLoaded
    /\ \E r \in {loadAllDataStart(localStorage, FreshPage, now)} :
           /\ SetPage(r.page)
           /\ inflight' = IF r.fetch THEN 1 ELSE 0
           /\ lastEvent' = Event("DOMContentLoaded", r.path, r.threw, FALSE,
                                 <<>>, NoOutcome)
    /\ pageLoaded' = TRUE
    /\ sessionStorage' = sessionStorage \ {"internal_nav"}
    /\ UNCHANGED <<localStorage, now>>
    /\ UNCHANGED reportVars

\* FetchSettled issuing the request again after a failure
FetchSettled_retries(o) ==
    /\ pageLoaded
    /\ inflight > 0
    /\ \E r \in {loadAllDataSettle(localStorage, Page, now, o)} :
           /\ localStorage' = r.ls
           /\ SetPage(r.page)
           /\ lastEvent' = Event("fetchSettled", r.path, r.threw, r.persisted,
                                 <<>>, o)
           /\ inflight' = IF r.path = "success" THEN inflight - 1 ELSE inflight
    /\ UNCHANGED <<sessionStorage, pageLoaded, now>>
    /\ UNCHANGED reportVars

\* the fetch of one waiting loadAllData settles with outcome o
FetchSettled(o) ==
    /\ pageLoaded
    /\ inflight > 0
    /\ \E r \in {loadAllDataSettle(localStorage, Page, now, o)} :
           /\ localStorage' = r.ls
           /\ SetPage(r.page)
           /\ lastEvent' = Event("fetchSettled", r.path, r.threw, r.persisted,
                                 <<>>, o)
    /\ inflight' = inflight - 1
    /\ UNCHANGED <<sessionStorage, pageLoaded, now>>
    /\ UNCHANGED reportVars

\* the fetch of one waiting loadAllData settles with a response that is no
\* error, and the k-th storage write of setCachedData throws
FetchSettledWriteFails(o, k) ==
    /\ pageLoaded
    /\ inflight > 0
    /\ ~fetchFailed(o)
    /\ \E r \in {loadAllDataSettleWriteFails(localStorage, Page, now, o, k)} :
           /\ localStorage' = r.ls
           /\ SetPage(r.page)
           /\ lastEvent' = Event("fetchSettled", r.path, r.threw, r.persisted,
                                 <<>>, o)
    /\ inflight' = inflight - 1
    /\ UNCHANGED <<sessionStorage, pageLoaded, now>>
    /\ UNCHANGED reportVars

\* the change listener of the year selector: loadDashboardData(this.value)
YearFilterChange(year) ==
    /\ pageLoaded
    /\ \E r \in {loadDashboardData(localStorage, [Page EXCEPT !.yearFilter = year],
                                   now, year)} :
           /\ r.fetch => inflight < MaxInflight
           /\ SetPage(r.page)
           /\ inflight' = IF r.fetch THEN inflight + 1 ELSE inflight
           /\ lastEvent' = Event("yearChange", r.path, r.threw, FALSE, year,
                                 NoOutcome)
    /\ UNCHANGED <<localStorage, sessionStorage, pageLoaded, now>>
    /\ UNCHANGED reportVars

\* the click listener of the links to index, publications and faculty pages
InternalLinkClick ==
    /\ pageLoaded
    /\ sessionStorage' = sessionStorage \cup {"internal_nav"}
    /\ lastEvent' = Event("linkClick", "none", FALSE, FALSE, <<>>, NoOutcome)
    /\ UNCHANGED <<localStorage, pageLoaded, rendered, loadingOverlay, yearFilter,
                   yearOptions, inflight, now>>
    /\ UNCHANGED reportVars

\* the beforeunload handler clearing the cache whatever the flag says
BeforeUnload_clearsAlways ==
    /\ pageLoaded
    /\ localStorage' = clearCacheOnClose(localStorage)
    /\ sessionStorage' = sessionStorage \ {"internal_nav"}
    /\ pageLoaded' = FALSE
    /\ SetPage(FreshPage)
    /\ inflight' = 0
    /\ lastEvent' = Event("beforeunload", "cleared", FALSE, FALSE, <<>>, NoOutcome)
    /\ UNCHANGED now
    /\ UNCHANGED reportVars

\* the beforeunload handler; the document and its pending continuations go
BeforeUnload ==
    /\ pageLoaded
    /\ localStorage' = IF "internal_nav" \notin sessionStorage
                       THEN clearCacheOnClose(localStorage) ELSE localStorage
    /\ sessionStorage' = sessionStorage \ {"internal_nav"}
    /\ pageLoaded' = FALSE
    /\ SetPage(FreshPage)
    /\ inflight' = 0
    /\ lastEvent' = Event("beforeunload",
                          IF "internal_nav" \notin sessionStorage
                          THEN "cleared" ELSE "kept",
                          FALSE, FALSE, <<>>, NoOutcome)
    /\ UNCHANGED now
    /\ UNCHANGED reportVars

\* time passes
Tick ==
    /\ now < StartMs + MaxTicks * TickMs
    /\ now' = now + TickMs
    /\ lastEvent' = Event("tick", "none", FALSE, FALSE, <<>>, NoOutcome)
    /\ UNCHANGED <<localStorage, sessionStorage, pageLoaded, rendered,
                   loadingOverlay, yearFilter, yearOptions, inflight>>
    /\ UNCHANGED reportVars

Next ==
    \/ DOMContentLoaded
    \/ \E o \in FetchOutcomes : FetchSettled(o)
    \/ \E year \in YearInputs : YearFilterChange(year)
    \/ InternalLinkClick
    \/ BeforeUnload
    \/ Tick

Spec == Init /\ [][Next]_vars

(***************************************************************************)
(* The year filter over a served list.  The session starts where a page    *)
(* load has fetched and stored a response with some publications list;     *)
(* from there the year selector is changed as time passes.                 *)
(***************************************************************************)
FilterInit ==
    \E pubs \in ServedLists :
        \E o \in {HttpOk(JObject(FilterBody(pubs)))} :
            \E r \in {loadAllDataSettle(<<>>, showLoadingState(FreshPage), StartMs, o)} :
                /\ localStorage = r.ls
                /\ sessionStorage = {}
                /\ pageLoaded = TRUE
                /\ rendered = r.page.rendered
                /\ loadingOverlay = r.page.loadingOverlay
                /\ yearFilter = r.page.yearFilter
                /\ yearOptions = r.page.yearOptions
                /\ inflight = 0
                /\ now = StartMs
                /\ lastEvent = [op |-> "fetchSettled", path |-> r.path,
                                threw |-> r.threw, persisted |-> r.persisted,
                                year |-> <<>>, outcome |-> o,
                                valid |-> FALSE, cached |-> FALSE]
                /\ ReportLoaded

FilterNext ==
    \/ \E year \in YearInputs : YearFilterChange(year)
    \/ Tick

FilterSpec == FilterInit /\ [][FilterNext]_vars

(***************************************************************************)
(* Overlapping loads.  The page is loaded over one of OverlapStores and    *)
(* stays open: the year selector is changed while fetches are in flight    *)
(* and the fetches settle in any order.                                    *)
(***************************************************************************)
OverlapInit ==
    /\ localStorage \in OverlapStores
    /\ sessionStorage = {}
    /\ pageLoaded = FALSE
    /\ rendered = FreshPage.rendered
    /\ loadingOverlay = FreshPage.loadingOverlay
    /\ yearFilter = FreshPage.yearFilter
    /\ yearOptions = FreshPage.yearOptions
    /\ inflight = 0
    /\ now = StartMs
    /\ lastEvent = [op |-> "none", path |-> "none", threw |-> FALSE,
                    persisted |-> FALSE, year |-> <<>>, outcome |-> NoOutcome,
                    valid |-> FALSE, cached |-> FALSE]
    /\ ReportLoaded

OverlapNext ==
    \/ DOMContentLoaded
    \/ \E o \in OverlapOutcomes : FetchSettled(o)
    \/ \E year \in YearInputs : YearFilterChange(year)
    \/ Tick

OverlapSpec == OverlapInit /\ [][OverlapNext]_vars

(***************************************************************************)
(* Storage writes that fail.  As the overlapping loads, over a store that  *)
(* may also hold a valid envelope, and with setCachedData throwing at any  *)
(* of its three writes.                                                    *)
(***************************************************************************)
QuotaStores ==
    OverlapStores
    \cup { [k \in {CACHE_KEY, CACHE_TIMESTAMP_KEY, CACHE_VERSION_KEY} |->
               IF k = CACHE_KEY THEN JSONstringify(JObject(BodyB))
               ELSE IF k = CACHE_TIMESTAMP_KEY THEN toString(TickMs)
               ELSE toString(CACHE_VERSION)] }

QuotaInit ==
    /\ localStorage \in QuotaStores
    /\ sessionStorage = {}
    /\ pageLoaded = FALSE
    /\ rendered = FreshPage.rendered
    /\ loadingOverlay = FreshPage.loadingOverlay
    /\ yearFilter = FreshPage.yearFilter
    /\ yearOptions = FreshPage.yearOptions
    /\ inflight = 0
    /\ now = StartMs
    /\ lastEvent = [op |-> "none", path |-> "none", threw |-> FALSE,
                    persisted |-> FALSE, year |-> <<>>, outcome |-> NoOutcome,
                    valid |-> FALSE, cached |-> FALSE]
    /\ ReportLoaded

QuotaNext ==
    \/ DOMContentLoaded
    \/ \E o \in OverlapOutcomes : FetchSettled(o)
    \/ \E o \in OverlapOutcomes : \E k \in 1..3 : FetchSettledWriteFails(o, k)
    \/ \E year \in YearInputs : YearFilterChange(year)
    \/ Tick

QuotaSpec == QuotaInit /\ [][QuotaNext]_vars

(***************************************************************************)
(* Anomalous publication lists.  The store and the responses carry lists   *)
(* on which the recomputation throws: with a null entry, and with a        *)
(* record of 2026 whose colleges is a string.                              *)
(***************************************************************************)
PubsNullEntry ==
    << [year |-> SNum(2026), month |-> SNum(1), colleges |-> <<"engineering">>],
       NullRecord,
       [year |-> SNum(2025), month |-> SNum(2), colleges |-> <<"engineering">>] >>

PubsCollegesText ==
    << [year |-> SNum(2026), month |-> SNum(1), colleges |-> <<"engineering">>],
       [year |-> SNum(2026), month |-> SNum(2), collegesText |-> "engineering"],
       [year |-> SNum(2025), month |-> SNum(2),
        colleges |-> <<"informatics_computing">>] >>

AnomalyBodies ==
    {FilterBody(pubs) : pubs \in {PubsNullEntry, PubsCollegesText, PubsA}}
    \cup {[publications |-> PubsNullEntry]}

AnomalyStores ==
    {<<>>}
    \cup { [k \in {CACHE_KEY, CACHE_TIMESTAMP_KEY, CACHE_VERSION_KEY} |->
               IF k = CACHE_KEY THEN JSONstringify(JObject(b))
               ELSE IF k = CACHE_TIMESTAMP_KEY THEN toString(TickMs)
               ELSE toString(CACHE_VERSION)] : b \in AnomalyBodies }

AnomalyOutcomes == {NetworkError} \cup {HttpOk(JObject(b)) : b \in AnomalyBodies}

AnomalyInit ==
    /\ localStorage \in AnomalyStores
    /\ sessionStorage = {}
    /\ pageLoaded = FALSE
    /\ rendered = FreshPage.rendered
    /\ loadingOverlay = FreshPage.loadingOverlay
    /\ yearFilter = FreshPage.yearFilter
    /\ yearOptions = FreshPage.yearOptions
    /\ inflight = 0
    /\ now = StartMs
    /\ lastEvent = [op |-> "none", path |-> "none", threw |-> FALSE,
                    persisted |-> FALSE, year |-> <<>>, outcome |-> NoOutcome,
                    valid |-> FALSE, cached |-> FALSE]
    /\ ReportLoaded

AnomalyNext ==
    \/ DOMContentLoaded
    \/ \E o \in AnomalyOutcomes : FetchSettled(o)
    \/ \E year \in YearInputs : YearFilterChange(year)
    \/ Tick

AnomalySpec == AnomalyInit /\ [][AnomalyNext]_vars

(***************************************************************************)
(* Sessions of page loads.  The page is loaded, left and loaded again      *)
(* over a store that starts empty, with a fresh timestamp and the current  *)
(* version around a data key that is absent, malformed or an envelope, or  *)
(* with an expired envelope; the bulk endpoint fails, or answers an        *)
(* envelope, an object without dashboard_stats, or the JSON text false.    *)
(***************************************************************************)
SessionStores ==
    { [k \in ks |-> IF k = CACHE_KEY THEN d
                    ELSE IF k = CACHE_TIMESTAMP_KEY THEN toString(TickMs)
                    ELSE toString(CACHE_VERSION)] :
        ks \in { {}, {CACHE_TIMESTAMP_KEY, CACHE_VERSION_KEY},
                 {CACHE_KEY, CACHE_TIMESTAMP_KEY, CACHE_VERSION_KEY} },
        d \in {GarbageText, JSONstringify(JObject(BodyB))} }
    \cup { [k \in {CACHE_KEY, CACHE_TIMESTAMP_KEY, CACHE_VERSION_KEY} |->
               IF k = CACHE_KEY THEN JSONstringify(JObject(BodyA))
               ELSE IF k = CACHE_TIMESTAMP_KEY THEN toString(0)
               ELSE toString(CACHE_VERSION)] }

SessionOutcomes ==
    {NetworkError, HttpFailure(BodyError), HttpOk(JFalse)}
    \cup {HttpOk(JObject(b)) : b \in {BodyA, BodyNoStats}}

SessionInit ==
    /\ localStorage \in SessionStores
    /\ sessionStorage = {}
    /\ pageLoaded = FALSE
    /\ rendered = FreshPage.rendered
    /\ loadingOverlay = FreshPage.loadingOverlay
    /\ yearFilter = FreshPage.yearFilter
    /\ yearOptions = FreshPage.yearOptions
    /\ inflight = 0
    /\ now = StartMs
    /\ lastEvent = [op |-> "none", path |-> "none", threw |-> FALSE,
                    persisted |-> FALSE, year |-> <<>>, outcome |-> NoOutcome,
                    valid |-> FALSE, cached |-> FALSE]
    /\ ReportLoaded

SessionNext ==
    \/ DOMContentLoaded
    \/ \E o \in SessionOutcomes : FetchSettled(o)
    \/ \E year \in YearInputs : YearFilterChange(year)
    \/ InternalLinkClick
    \/ BeforeUnload
    \/ Tick

SessionSpec == SessionInit /\ [][SessionNext]_vars

(***************************************************************************)
(* The export-report page: previews, paging, filter changes and exports    *)
(* in any order, the dashboard left alone.                                 *)
(***************************************************************************)
\* the click listener of the preview button, up to the fetch
loadPreview ==
    /\ ~reportRequests.preview
    /\ reportPage' = [reportPage EXCEPT !.table = "loading", !.rows = <<>>,
                                        !.summary = FALSE]
    /\ reportRequests' = [reportRequests EXCEPT !.preview = TRUE]
    /\ UNCHANGED <<lastPreviewPublications, currentPreviewPage>>
    /\ UNCHANGED dashboardVars

\* the preview request settles with outcome o: then or catch, and finally
PreviewSettled(o) ==
    /\ reportRequests.preview
    /\ IF o.ok
       THEN \E r \in {previewThen(reportPage, currentPreviewPage, o.publications)} :
                /\ lastPreviewPublications' = r.last
                /\ currentPreviewPage' = r.cur
                /\ reportPage' = r.pg
       ELSE /\ reportPage' = previewCatch(reportPage)
            /\ UNCHANGED <<lastPreviewPublications, currentPreviewPage>>
    /\ reportRequests' = [reportRequests EXCEPT
                              !.preview = FALSE,
                              !.previewed = IF o.ok THEN <<o.publications>> ELSE <<>>]
    /\ UNCHANGED dashboardVars

\* the click listener of the previous-page button of the displayed bar
goPreviewPrev ==
    /\ reportPage.pagination
    /\ IF lastPreviewPublications # <<>> /\ currentPreviewPage > 1
       THEN \E r \in {renderPreviewPage(reportPage, lastPreviewPublications,
                                        currentPreviewPage, currentPreviewPage - 1)} :
                /\ currentPreviewPage' = r.cur
                /\ reportPage' = renderPagination(r.pg, lastPreviewPublications)
       ELSE UNCHANGED <<currentPreviewPage, reportPage>>
    /\ UNCHANGED <<lastPreviewPublications, reportRequests>>
    /\ UNCHANGED dashboardVars

\* the click listener of the next-page button of the displayed bar
goPreviewNext ==
    /\ reportPage.pagination
    /\ IF /\ lastPreviewPublications # <<>>
          /\ currentPreviewPage < totalPagesOf(Len(lastPreviewPublications[1]))
       THEN \E r \in {renderPreviewPage(reportPage, lastPreviewPublications,
                                        currentPreviewPage, currentPreviewPage + 1)} :
                /\ currentPreviewPage' = r.cur
                /\ reportPage' = renderPagination(r.pg, lastPreviewPublications)
       ELSE UNCHANGED <<currentPreviewPage, reportPage>>
    /\ UNCHANGED <<lastPreviewPublications, reportRequests>>
    /\ UNCHANGED dashboardVars

\* the year filter of the report page is set to year
ReportFilterChange(year) ==
    /\ reportPage' = [reportPage EXCEPT !.year = year]
    /\ UNCHANGED <<lastPreviewPublications, currentPreviewPage, reportRequests>>
    /\ UNCHANGED dashboardVars

\* the click listener of the reset button
resetFilters ==
    /\ reportPage' = [reportPage EXCEPT !.year = ""]
    /\ UNCHANGED <<lastPreviewPublications, currentPreviewPage, reportRequests>>
    /\ UNCHANGED dashboardVars

\* the click listener of the export button, up to the fetch
exportReport ==
    /\ ~reportRequests.export
    /\ IF lastPreviewPublications = <<>>
       THEN /\ reportPage' = [reportPage EXCEPT !.message = "preview_first"]
            /\ UNCHANGED reportRequests
       ELSE /\ reportPage' = [reportPage EXCEPT !.message = ""]
            /\ reportRequests' =
                   [reportRequests EXCEPT
                        !.export = TRUE,
                        !.exported = <<[year |-> reportPage.year,
                                        publications |-> lastPreviewPublications[1]]>>]
    /\ UNCHANGED <<lastPreviewPublications, currentPreviewPage>>
    /\ UNCHANGED dashboardVars

\* the export request settles: the download or the failure message
ExportSettled(ok) ==
    /\ reportRequests.export
    /\ reportPage' = [reportPage EXCEPT
                          !.message = IF ok THEN "downloaded" ELSE "export_failed"]
    /\ reportRequests' = [reportRequests EXCEPT !.export = FALSE]
    /\ UNCHANGED <<lastPreviewPublications, currentPreviewPage>>
    /\ UNCHANGED dashboardVars

ReportInit ==
    /\ localStorage = <<>>
    /\ sessionStorage = {}
    /\ pageLoaded = FALSE
    /\ rendered = FreshPage.rendered
    /\ loadingOverlay = FreshPage.loadingOverlay
    /\ yearFilter = FreshPage.yearFilter
    /\ yearOptions = FreshPage.yearOptions
    /\ inflight = 0
    /\ now = StartMs
    /\ lastEvent = [op |-> "none", path |-> "none", threw |-> FALSE,
                    persisted |-> FALSE, year |-> <<>>, outcome |-> NoOutcome,
                    valid |-> FALSE, cached |-> FALSE]
    /\ ReportLoaded

ReportNext ==
    \/ loadPreview
    \/ \E o \in PreviewOutcomes : PreviewSettled(o)
    \/ goPreviewPrev
    \/ goPreviewNext
    \/ \E year \in ReportYears : ReportFilterChange(year)
    \/ resetFilters
    \/ exportReport
    \/ \E ok \in BOOLEAN : ExportSettled(ok)

ReportSpec == ReportInit /\ [][ReportNext]_vars

TypeOK ==
    /\ pageLoaded \in BOOLEAN
    /\ loadingOverlay \in BOOLEAN
    /\ inflight \in 0..MaxInflight
    /\ sessionStorage \subseteq {"internal_nav"}
    /\ Len(rendered) <= 1

(***************************************************************************)
(* Vocabulary of the properties.                                           *)
(***************************************************************************)
TwentyFourHours == 24 * 60 * 60 * 1000

\* a string that is a decimal numeral
IsDecimal(s) == s # <<>> /\ \A i \in 1..Len(s) : IsDigit(s[i])

\* the stored version marker is the current version
VersionMarkerCurrent(ls) ==
    hasItem(ls, CACHE_VERSION_KEY) /\ ls[CACHE_VERSION_KEY] = toString(CACHE_VERSION)

\* a version marker is stored and is not the current version
VersionMarkerOther(ls) ==
    hasItem(ls, CACHE_VERSION_KEY) /\ ls[CACHE_VERSION_KEY] # toString(CACHE_VERSION)

\* a timestamp is stored and is less than 24 hours before t
TimestampFresh(ls, t) ==
    /\ hasItem(ls, CACHE_TIMESTAMP_KEY)
    /\ IsDecimal(ls[CACHE_TIMESTAMP_KEY])
    /\ t - DigitsValue(ls[CACHE_TIMESTAMP_KEY]) < TwentyFourHours

\* the object the data key parses to: <<>> or <<object>>
StoredObject(ls) ==
    IF hasItem(ls, CACHE_KEY) /\ ls[CACHE_KEY].kind = "json" /\ ls[CACHE_KEY].lit = "object"
    THEN <<ls[CACHE_KEY].members>> ELSE <<>>

\* the envelope the data key parses to: an object carrying dashboard_stats
StoredEnvelope(ls) ==
    IF StoredObject(ls) # <<>> /\ "dashboard_stats" \in DOMAIN StoredObject(ls)[1]
    THEN StoredObject(ls) ELSE <<>>

\* the step is a page load / the settling of a fetch / a year-filter change
IsPageLoad == ~pageLoaded /\ pageLoaded'
IsFetchSettled == lastEvent'.op = "fetchSettled" /\ inflight' = inflight - 1
IsYearChange == lastEvent'.op = "yearChange" /\ pageLoaded /\ pageLoaded'

(***************************************************************************)
(* C1.  A page load that finds the current version marker, a timestamp     *)
(* less than 24 hours old and a data key that parses to an envelope        *)
(* renders the cached dashboard_stats as they are and issues no request.   *)
(***************************************************************************)
C1_ValidCacheLoadsWithoutFetch ==
    [][ (/\ IsPageLoad
         /\ VersionMarkerCurrent(localStorage)
         /\ TimestampFresh(localStorage, now)
         /\ StoredEnvelope(localStorage) # <<>>)
        => (/\ rendered' = <<StoredEnvelope(localStorage)[1].dashboard_stats>>
            /\ inflight' = 0
            /\ ~loadingOverlay'
            /\ localStorage' = localStorage) ]_vars

C1_Witness ==
    /\ lastEvent.op = "DOMContentLoaded"
    /\ lastEvent.path = "cache"
    /\ rendered = <<StatsA>>
    /\ inflight = 0

(***************************************************************************)
(* C2.  When the bulk fetch fails, the stats of the stored envelope are    *)
(* rendered whatever its age or version, and the all-zero stats are        *)
(* rendered only if nothing is stored.                                     *)
(***************************************************************************)
\* what is rendered by the failure path, given the cache it finds
FallbackRendered ==
    /\ StoredEnvelope(localStorage) # <<>>
         => rendered' = <<StoredEnvelope(localStorage)[1].dashboard_stats>>
    /\ StoredObject(localStorage) = <<>> => rendered' = <<ZeroStats>>
    /\ lastEvent'.path = "zero" => StoredObject(localStorage) = <<>>

\* the failures as the claim lists them: any error field counts
ClaimedFailure(o) ==
    \/ ~o.net
    \/ ~o.ok
    \/ o.json /\ Truthy(o.data) /\ "error" \in DOMAIN o.data.obj

\* the failures with an error field that is not empty
NonEmptyErrorFailure(o) ==
    \/ ~o.net
    \/ ~o.ok
    \/ o.json /\ Truthy(o.data) /\ "error" \in DOMAIN o.data.obj
       /\ o.data.obj.error # ""

\* C2 as stated: a present error field, whatever its value, is a failure
C2_AnyErrorFieldFallsBack ==
    [][ (IsFetchSettled /\ ClaimedFailure(lastEvent'.outcome)) => FallbackRendered ]_vars

\* C2 as amended: network error, non-success status, or a non-empty error field
C2_FailureFallsBackToStoredEnvelope ==
    [][ (IsFetchSettled /\ NonEmptyErrorFailure(lastEvent'.outcome))
        => FallbackRendered ]_vars

\* an expired envelope was served after a failure
C2_Witness ==
    /\ lastEvent.op = "fetchSettled"
    /\ lastEvent.path = "expired_cache"
    /\ ~lastEvent.valid
    /\ ~lastEvent.threw
    /\ lastEvent.outcome = HttpOk(JObject(BodyErrorWithData))
    /\ rendered = <<StatsB>>

(***************************************************************************)
(* C3.  A page load without a usable valid cache shows the loading state   *)
(* and issues one request; a successful response is persisted whole and    *)
(* its dashboard_stats are rendered.                                       *)
(***************************************************************************)
\* HTTP OK, a body with dashboard_stats and without an error field
SuccessfulResponse(o) ==
    /\ o.net /\ o.ok /\ o.json /\ Truthy(o.data)
    /\ "error" \notin DOMAIN o.data.obj
    /\ "dashboard_stats" \in DOMAIN o.data.obj

C3_MissLoadsFetchesAndPersists ==
    [][ /\ (/\ IsPageLoad
            /\ ~(/\ VersionMarkerCurrent(localStorage)
                 /\ TimestampFresh(localStorage, now)
                 /\ StoredObject(localStorage) # <<>>))
           => (loadingOverlay' /\ inflight' = 1 /\ rendered' = <<>>)
        /\ (IsFetchSettled /\ SuccessfulResponse(lastEvent'.outcome))
           => (/\ StoredObject(localStorage') = <<lastEvent'.outcome.data.obj>>
               /\ rendered' = <<lastEvent'.outcome.data.obj.dashboard_stats>>
               /\ ~loadingOverlay'
               /\ inflight' = inflight - 1) ]_vars

C3_Witness ==
    /\ lastEvent.op = "fetchSettled"
    /\ lastEvent.path = "success"
    /\ ~lastEvent.cached
    /\ StoredObject(localStorage) = <<BodyA>>
    /\ rendered = <<StatsA>>
    /\ ~loadingOverlay

(***************************************************************************)
(* C4.  A year-filter change that finds an envelope in the cache issues    *)
(* no request, and leaves the envelope in place for the next change.       *)
(***************************************************************************)
C4_FilterChangeWithEnvelopeNeverFetches ==
    [][ (IsYearChange /\ StoredObject(localStorage) # <<>>)
        => (/\ inflight' = inflight
            /\ lastEvent'.path # "no_cache"
            /\ localStorage' = localStorage) ]_vars

\* a filter change served from an expired envelope, with no request pending
C4_Witness ==
    /\ lastEvent.op = "yearChange"
    /\ lastEvent.path = "filtered"
    /\ ~lastEvent.valid
    /\ inflight = 0
    /\ StoredObject(localStorage) = <<BodyA>>

(***************************************************************************)
(* C5.  For a filter year that is an integer, the rendered stats are the   *)
(* cached dashboard_stats with exactly total_publications,                 *)
(* quarterly_counts and college_counts replaced by the recomputed values.  *)
(***************************************************************************)
RecomputedKeys == {"total_publications", "quarterly_counts", "college_counts"}

C5_FilteredStatsKeepOtherFields ==
    [][ (/\ IsYearChange
         /\ IsDecimal(lastEvent'.year)
         /\ StoredEnvelope(localStorage) # <<>>)
        => LET envelope == StoredEnvelope(localStorage)[1]
               base     == envelope.dashboard_stats
               pubs     == IF "publications" \in DOMAIN envelope
                           THEN envelope.publications ELSE <<>>
               fresh    == recomputed(pubs, DigitsValue(lastEvent'.year), now)
           IN  /\ rendered' # <<>>
               /\ DOMAIN rendered'[1] = DOMAIN base \cup RecomputedKeys
               /\ \A k \in DOMAIN base \ RecomputedKeys : rendered'[1][k] = base[k]
               /\ rendered'[1].total_publications = fresh.total_publications
               /\ rendered'[1].quarterly_counts = fresh.quarterly_counts
               /\ rendered'[1].college_counts = fresh.college_counts ]_vars

C5_Witness ==
    /\ lastEvent.op = "yearChange"
    /\ lastEvent.path = "filtered"
    /\ StoredEnvelope(localStorage) = <<BodyA>>
    /\ rendered # <<>>
    /\ rendered[1].total_publications # StatsA.total_publications
    /\ rendered[1].department_counts = StatsA.department_counts
    /\ rendered[1].department_quarterly_counts = StatsA.department_quarterly_counts
    /\ rendered[1].earliest_year = StatsA.earliest_year

(***************************************************************************)
(* C6.  isCacheValid() is true exactly when the stored version marker is   *)
(* the current version and a timestamp is stored that is less than 24      *)
(* hours old; anything missing or unparseable gives false.                 *)
(***************************************************************************)
C6_ValidIffCurrentVersionAndFresh ==
    isCacheValid(localStorage, now)
        <=> (VersionMarkerCurrent(localStorage) /\ TimestampFresh(localStorage, now))

\* a page load that met a timestamp exactly 24 hours old and fetched
C6_Witness ==
    /\ lastEvent.op = "DOMContentLoaded"
    /\ lastEvent.path = "fetch"
    /\ VersionMarkerCurrent(localStorage)
    /\ hasItem(localStorage, CACHE_TIMESTAMP_KEY)
    /\ IsDecimal(localStorage[CACHE_TIMESTAMP_KEY])
    /\ now - DigitsValue(localStorage[CACHE_TIMESTAMP_KEY]) = TwentyFourHours
    /\ StoredEnvelope(localStorage) # <<>>

(***************************************************************************)
(* C7.  An envelope stored under another version marker is not used by     *)
(* the next page load, which fetches; a successful fetch then stores the   *)
(* current version marker.                                                 *)
(***************************************************************************)
C7_OtherVersionIsRefetched ==
    [][ /\ (IsPageLoad /\ VersionMarkerOther(localStorage)
                       /\ StoredEnvelope(localStorage) # <<>>)
           => (inflight' = 1 /\ rendered' = <<>> /\ lastEvent'.path = "fetch")
        /\ (IsFetchSettled /\ VersionMarkerOther(localStorage)
                           /\ SuccessfulResponse(lastEvent'.outcome))
           => (/\ VersionMarkerCurrent(localStorage')
               /\ StoredObject(localStorage') = <<lastEvent'.outcome.data.obj>>) ]_vars

\* a page load that met a fresh envelope under version 1 and fetched
C7_Witness ==
    /\ lastEvent.op = "DOMContentLoaded"
    /\ lastEvent.path = "fetch"
    /\ VersionMarkerOther(localStorage)
    /\ TimestampFresh(localStorage, now)
    /\ StoredEnvelope(localStorage) # <<>>
    /\ inflight = 1

(***************************************************************************)
(* C8.  getCachedData() never throws: it gives the stored value when the   *)
(* data key parses, and null when the key is absent, empty or malformed,   *)
(* exactly as if a malformed value were absent.                            *)
(***************************************************************************)
C8_GetCachedDataNullOnBadData ==
    LET r == getCachedData(localStorage)
    IN  /\ r.type \in {"null", "object"}
        /\ (~hasItem(localStorage, CACHE_KEY)
            \/ localStorage[CACHE_KEY] \in {EmptyText, GarbageText}) => r = JNull
        /\ StoredObject(localStorage) # <<>> => r = JObject(StoredObject(localStorage)[1])
        /\ (hasItem(localStorage, CACHE_KEY) /\ localStorage[CACHE_KEY] = GarbageText)
           => r = getCachedData(removeItem(localStorage, CACHE_KEY))

\* a year-filter change that met a malformed data key
C8_Witness ==
    /\ hasItem(localStorage, CACHE_KEY)
    /\ localStorage[CACHE_KEY] = GarbageText
    /\ lastEvent.op = "yearChange"
    /\ lastEvent.path = "no_cache"

(***************************************************************************)
(* C9.  setCachedData(e) writes all three keys over whatever was stored:   *)
(* right after it isCacheValid() is true and getCachedData() gives e.      *)
(***************************************************************************)
C9_SetThenValidAndGetReturnsIt ==
    lastEvent.persisted
        => (/\ {CACHE_KEY, CACHE_TIMESTAMP_KEY, CACHE_VERSION_KEY} \subseteq DOMAIN localStorage
            /\ localStorage[CACHE_TIMESTAMP_KEY] = toString(now)
            /\ localStorage[CACHE_VERSION_KEY] = toString(CACHE_VERSION)
            /\ isCacheValid(localStorage, now)
            /\ getCachedData(localStorage) = lastEvent.outcome.data)

\* a response stored over an envelope that was no longer valid
C9_Witness ==
    /\ lastEvent.persisted
    /\ lastEvent.cached
    /\ ~lastEvent.valid
    /\ lastEvent.outcome = HttpOk(JObject(BodyA))
    /\ getCachedData(localStorage) = JObject(BodyA)

(***************************************************************************)
(* C10.  Clearing the cache removes the data, timestamp and version keys:  *)
(* after it isCacheValid() is false and getCachedData() is null.           *)
(***************************************************************************)
C10_ClearRemovesAllKeys ==
    (lastEvent.op = "beforeunload" /\ lastEvent.path = "cleared")
        => (/\ DOMAIN localStorage
                 \cap {CACHE_KEY, CACHE_TIMESTAMP_KEY, CACHE_VERSION_KEY} = {}
            /\ ~isCacheValid(localStorage, now)
            /\ getCachedData(localStorage) = JNull)

\* a clear of a cache that was valid and held an envelope
C10_Witness ==
    /\ lastEvent.op = "beforeunload"
    /\ lastEvent.path = "cleared"
    /\ lastEvent.valid
    /\ lastEvent.cached
    /\ localStorage = <<>>

(***************************************************************************)
(* Vocabulary of the aggregation properties: the year and the month of a   *)
(* record as the specification defines them, and the records a filter      *)
(* year selects, by position in the cached list.                           *)
(***************************************************************************)
\* the cached publications list (empty when the envelope has none)
StoredPublications(ls) ==
    IF StoredObject(ls) # <<>> /\ "publications" \in DOMAIN StoredObject(ls)[1]
    THEN StoredObject(ls)[1].publications ELSE <<>>

\* the calendar year and quarter of the instant t
YearAt(t) == getFullYear(t)
QuarterAt(t) == (getMonth(t) \div 3) + 1

\* the part of s before its first "/" (all of s when it has none)
BeforeSlash(s) ==
    LET slashes == {i \in 1..Len(s) : s[i] = "/"}
    IN  IF slashes = {} THEN s
        ELSE SubSeq(s, 1, (CHOOSE i \in slashes : \A j \in slashes : i <= j) - 1)

HasSlash(s) == \E i \in 1..Len(s) : s[i] = "/"

\* the integer a string parses to, or else the alternative
ParsedOr(n, alternative) == IF n.nan THEN alternative ELSE <<n.n>>

\* normalizeYear of the specification: <<>> for null, <<y>> for the year y
normalizeYear(v) ==
    IF v.t = "null" THEN <<>>
    ELSE IF v.t = "num" THEN <<v.n>>
    ELSE IF v.s = <<>> THEN <<>>
    ELSE IF HasSlash(v.s)
    THEN ParsedOr(parseInt(trim(BeforeSlash(v.s))), ParsedOr(parseInt(trim(v.s)), <<>>))
    ELSE ParsedOr(parseInt(v.s), <<>>)

\* the normalized year of a record; a record without a year has none
YearOf(pub) == IF "year" \in DOMAIN pub THEN normalizeYear(pub.year) ELSE <<>>

\* normalizeMonth of the specification: <<m>> for a month in 1..12, else <<>>
normalizeMonth(pub) ==
    LET InRange(m) == IF ~m.nan /\ m.n \in 1..12 THEN <<m.n>> ELSE <<>>
    IN  IF "month" \notin DOMAIN pub \/ pub.month.t = "null" THEN <<>>
        ELSE IF pub.month.t = "num" THEN InRange(parseInt(numberToString(pub.month)))
        ELSE InRange(parseInt(pub.month.s))

\* months 1-3 are quarter 1, 4-6 quarter 2, 7-9 quarter 3, 10-12 quarter 4
QuarterOfMonth(m) == ((m - 1) \div 3) + 1

QuarterKey == <<"q1", "q2", "q3", "q4">>

\* the positions of the records of year y
Selected(pubs, y) == {i \in 1..Len(pubs) : YearOf(pubs[i]) = <<y>>}

\* those with a valid month in quarter q, and those without a valid month
SelectedInQuarter(pubs, y, q) ==
    {i \in Selected(pubs, y) :
        /\ normalizeMonth(pubs[i]) # <<>>
        /\ QuarterOfMonth(normalizeMonth(pubs[i])[1]) = q}

SelectedWithoutMonth(pubs, y) ==
    {i \in Selected(pubs, y) : normalizeMonth(pubs[i]) = <<>>}

\* the step is a change of the year filter to an integer, with an envelope
\* in the cache
IsFilteredChange ==
    /\ IsYearChange
    /\ IsDecimal(lastEvent'.year)
    /\ StoredEnvelope(localStorage) # <<>>

\* the year it filters for
FilterYear == DigitsValue(lastEvent'.year)

\* q1 + q2 + q3 + q4 of rendered stats
QuarterSum(stats) ==
    stats.quarterly_counts.q1 + stats.quarterly_counts.q2
        + stats.quarterly_counts.q3 + stats.quarterly_counts.q4

(***************************************************************************)
(* C11.  Filtering for the current calendar year counts a selected record  *)
(* only if its month is valid and its quarter is not after the current     *)
(* quarter: the later quarters are 0 and total_publications is             *)
(* q1 + q2 + q3 + q4.                                                      *)
(***************************************************************************)
C11_CurrentYearCountsUpToCurrentQuarter ==
    [][ (IsFilteredChange /\ FilterYear = YearAt(now))
        => /\ rendered' # <<>>
           /\ \A q \in 1..4 :
                  rendered'[1].quarterly_counts[QuarterKey[q]]
                      = IF q <= QuarterAt(now)
                        THEN Cardinality(SelectedInQuarter(
                                 StoredPublications(localStorage), FilterYear, q))
                        ELSE 0
           /\ rendered'[1].total_publications = QuarterSum(rendered'[1]) ]_vars

\* in the first quarter of 2026, of a January, a May and a month-less record
\* of 2026 only the January record is counted
C11_Witness ==
    /\ lastEvent.op = "yearChange"
    /\ lastEvent.path = "filtered"
    /\ lastEvent.year = toString(YearAt(now))
    /\ QuarterAt(now) = 1
    /\ StoredPublications(localStorage) = PubsA
    /\ Cardinality(Selected(PubsA, YearAt(now))) = 3
    /\ rendered # <<>>
    /\ rendered[1].quarterly_counts = [q1 |-> 1, q2 |-> 0, q3 |-> 0, q4 |-> 0]
    /\ rendered[1].total_publications = 1

(***************************************************************************)
(* C12.  Filtering for a year other than the current one counts every      *)
(* selected record with a valid month in the quarter of that month, and    *)
(* total_publications is the number of selected records, those without a   *)
(* valid month included.                                                   *)
(***************************************************************************)
C12_OtherYearCountsEveryRecord ==
    [][ (IsFilteredChange /\ FilterYear # YearAt(now))
        => /\ rendered' # <<>>
           /\ \A q \in 1..4 :
                  rendered'[1].quarterly_counts[QuarterKey[q]]
                      = Cardinality(SelectedInQuarter(
                            StoredPublications(localStorage), FilterYear, q))
           /\ rendered'[1].total_publications
                  = Cardinality(Selected(StoredPublications(localStorage),
                                         FilterYear)) ]_vars

\* two records of 2025, one in December and one without a month: the total
\* is 2 although only one is in a quarter
C12_Witness ==
    /\ lastEvent.op = "yearChange"
    /\ lastEvent.path = "filtered"
    /\ lastEvent.year = toString(YearAt(now) - 1)
    /\ Cardinality(Selected(StoredPublications(localStorage), YearAt(now) - 1)) = 2
    /\ Cardinality(SelectedWithoutMonth(StoredPublications(localStorage),
                                        YearAt(now) - 1)) = 1
    /\ rendered # <<>>
    /\ rendered[1].quarterly_counts = [q1 |-> 0, q2 |-> 0, q3 |-> 0, q4 |-> 1]
    /\ rendered[1].total_publications = 2

(***************************************************************************)
(* C13.  For a year other than the current one, q1 + q2 + q3 + q4 plus     *)
(* the number of selected records without a determinable month is          *)
(* total_publications, and the mismatch diagnostic is not logged; for the  *)
(* current year total_publications is the number of records tallied into   *)
(* the quarters up to the current one.                                     *)
(***************************************************************************)
C13_QuartersAndMonthlessSumToTotal ==
    [][ IsFilteredChange
        => /\ rendered' # <<>>
           /\ ~quarterlyMismatch(StoredPublications(localStorage), FilterYear, now)
           /\ FilterYear # YearAt(now)
                 => rendered'[1].total_publications
                      = QuarterSum(rendered'[1])
                        + Cardinality(SelectedWithoutMonth(
                              StoredPublications(localStorage), FilterYear))
           /\ FilterYear = YearAt(now)
                 => LET tallied ==
                            UNION {SelectedInQuarter(StoredPublications(localStorage),
                                                     FilterYear, q) :
                                       q \in 1..QuarterAt(now)}
                    IN  rendered'[1].total_publications = Cardinality(tallied) ]_vars

\* a record of 2025 with month 13 and one with month -1: no quarter has
\* them, the total is 2
C13_Witness ==
    /\ lastEvent.op = "yearChange"
    /\ lastEvent.path = "filtered"
    /\ lastEvent.year = toString(YearAt(now) - 1)
    /\ Cardinality(SelectedWithoutMonth(StoredPublications(localStorage),
                                        YearAt(now) - 1)) = 2
    /\ \E i \in 1..Len(StoredPublications(localStorage)) :
           /\ "month" \in DOMAIN StoredPublications(localStorage)[i]
           /\ StoredPublications(localStorage)[i].month = SNum(13)
    /\ rendered # <<>>
    /\ QuarterSum(rendered[1]) = 0
    /\ rendered[1].total_publications = 2

(***************************************************************************)
(* C14.  The records a filter year selects are exactly the cached records  *)
(* whose normalized year is that year.  A record whose year is null,       *)
(* empty or unparseable is selected by no year, changes no recomputed      *)
(* count, and does not make the filter throw.                              *)
(***************************************************************************)
\* the years a subset is looked at for: those of the records, their
\* neighbours, and 0
ProbedYears == {0} \cup 2024..2027

\* the cached list without the records that have no normalized year
WithYear(pubs) == SelectSeq(pubs, LAMBDA pub : YearOf(pub) # <<>>)

C14_UnparseableYearIsInNoSubset ==
    [][ IsFilteredChange
        => /\ ~lastEvent'.threw
           /\ rendered' # <<>>
           /\ \A y \in ProbedYears \cup {FilterYear} :
                  filteredPublications(StoredPublications(localStorage), y)
                      = SelectSeq(StoredPublications(localStorage),
                                  LAMBDA pub : YearOf(pub) = <<y>>)
           /\ \A k \in RecomputedKeys :
                  rendered'[1][k]
                      = recomputed(WithYear(StoredPublications(localStorage)),
                                   FilterYear, now)[k] ]_vars

\* a record of year "/2026" next to a record of 2025: the filter for 2025
\* counts one record
C14_Witness ==
    /\ lastEvent.op = "yearChange"
    /\ lastEvent.path = "filtered"
    /\ ~lastEvent.threw
    /\ lastEvent.year = <<"2", "0", "2", "5">>
    /\ Len(StoredPublications(localStorage)) = 2
    /\ Prop(StoredPublications(localStorage)[1], "year")
           = <<SStr(<<"/", "2", "0", "2", "6">>)>>
    /\ YearOf(StoredPublications(localStorage)[2]) = <<2025>>
    /\ rendered # <<>>
    /\ rendered[1].total_publications = 1

(***************************************************************************)
(* C15.  college_counts has the four fixed keys, and the count of a key    *)
(* is the number of entries equal to it in the colleges of the selected    *)
(* records: other identifiers are ignored, a record adds to every key it   *)
(* names, and a record without colleges adds nothing.                      *)
(***************************************************************************)
\* the colleges sequence of a record
Colleges(pub) == IF "colleges" \in DOMAIN pub THEN pub.colleges ELSE <<>>

\* the entries <<record, position>> of the selected records that name key
EntriesNaming(pubs, y, key) ==
    UNION { { <<i, j>> : j \in {j \in 1..Len(Colleges(pubs[i])) :
                                    Colleges(pubs[i])[j] = key} } :
            i \in Selected(pubs, y) }

C15_CollegeCountsTallyMatchingEntries ==
    [][ IsFilteredChange
        => /\ rendered' # <<>>
           /\ rendered'[1].college_counts
                  = [key \in {"engineering", "informatics_computing",
                              "engineering_technology", "architecture_design"} |->
                        Cardinality(EntriesNaming(StoredPublications(localStorage),
                                                  FilterYear, key))] ]_vars

\* the records of 2026 name engineering, engineering and
\* informatics_computing, and nothing
C15_Witness ==
    /\ lastEvent.op = "yearChange"
    /\ lastEvent.path = "filtered"
    /\ lastEvent.year = <<"2", "0", "2", "6">>
    /\ StoredPublications(localStorage) = PubsA
    /\ rendered # <<>>
    /\ rendered[1].college_counts
           = [engineering |-> 2, informatics_computing |-> 1,
              engineering_technology |-> 0, architecture_design |-> 0]

(***************************************************************************)
(* C16.  getPubYear gives null for null and the empty string, the floor    *)
(* of a number, for a string the integer parsed from the trimmed part      *)
(* before the first "/" or else from the trimmed whole, and null when      *)
(* nothing parses; it is the identity on integers and maps "2023/05" to    *)
(* 2023.                                                                   *)
(***************************************************************************)
C16_GetPubYearNormalizes ==
    /\ \A i \in 1..Len(StoredPublications(localStorage)) :
           LET pub == StoredPublications(localStorage)[i]
           IN  /\ getPubYear(pub) = YearOf(pub)
               /\ getPubYear(pub) # <<>>
                     => getPubYear([year |-> SNum(getPubYear(pub)[1])]) = getPubYear(pub)
    /\ \A y \in ProbedYears : getPubYear([year |-> SNum(y)]) = <<y>>
    /\ getPubYear([year |-> SStr(<<"2", "0", "2", "3", "/", "0", "5">>)]) = <<2023>>
    /\ getPubYear([year |-> SStr(<<>>)]) = <<>>
    /\ getPubYear([year |-> SNull]) = <<>>

\* the filter for 2026 selected a record of year "2026/05" and one of
\* year 2026.5
C16_Witness ==
    /\ lastEvent.op = "yearChange"
    /\ lastEvent.path = "filtered"
    /\ lastEvent.year = <<"2", "0", "2", "6">>
    /\ Len(StoredPublications(localStorage)) = 2
    /\ Prop(StoredPublications(localStorage)[1], "year")
           = <<SStr(<<"2", "0", "2", "6", "/", "0", "5">>)>>
    /\ Prop(StoredPublications(localStorage)[2], "year") = <<SHalf(2026)>>
    /\ rendered # <<>>
    /\ rendered[1].college_counts.informatics_computing = 1
    /\ QuarterAt(now) = 2
    /\ rendered[1].total_publications = 1

(***************************************************************************)
(* C17.  A month is valid only if it parses to an integer in 1..12.  A     *)
(* month that is null, missing, empty, not a number, 0, above 12 or        *)
(* negative is unknown: the record is in no quarter, it is in the          *)
(* without-month bucket, and the aggregation does not throw.               *)
(***************************************************************************)
\* the month of a record is one of the unknown months the claim lists
MonthUnknown(pub) ==
    \/ "month" \notin DOMAIN pub
    \/ pub.month.t = "null"
    \/ pub.month.t = "str" /\ pub.month.s = <<>>
    \/ pub.month.t = "str" /\ parseInt(pub.month.s).nan
    \/ pub.month.t = "str" /\ ~parseInt(pub.month.s).nan
          /\ (parseInt(pub.month.s).n <= 0 \/ parseInt(pub.month.s).n > 12)
    \/ pub.month.t = "num" /\ (pub.month.n <= 0 \/ pub.month.n > 12)

\* the publicationsWithoutMonth counter of the filter for year y at t
WithoutMonthBucket(pubs, y, t) ==
    countQuarters(filteredPublications(pubs, y), y = getFullYear(t),
                  currentQuarterOf(getMonth(t) + 1)).publicationsWithoutMonth

C17_UnknownMonthIsInNoQuarter ==
    [][ IsFilteredChange
        => /\ ~lastEvent'.threw
           /\ rendered' # <<>>
           /\ WithoutMonthBucket(StoredPublications(localStorage), FilterYear, now)
                  = Cardinality({i \in Selected(StoredPublications(localStorage),
                                                FilterYear) :
                                    MonthUnknown(StoredPublications(localStorage)[i])})
           /\ QuarterSum(rendered'[1])
                  <= Cardinality({i \in Selected(StoredPublications(localStorage),
                                                 FilterYear) :
                                     ~MonthUnknown(StoredPublications(localStorage)[i])})
           /\ \A i \in 1..Len(StoredPublications(localStorage)) :
                  MonthUnknown(StoredPublications(localStorage)[i])
                      <=> monthInt(StoredPublications(localStorage)[i]).nan
                          \/ monthInt(StoredPublications(localStorage)[i]).n \notin 1..12
         ]_vars

\* two records of 2026, one with month 0 and one with month "Q1": both are
\* selected, neither is in a quarter
C17_Witness ==
    /\ lastEvent.op = "yearChange"
    /\ lastEvent.path = "filtered"
    /\ ~lastEvent.threw
    /\ lastEvent.year = <<"2", "0", "2", "6">>
    /\ Len(StoredPublications(localStorage)) = 2
    /\ Cardinality(Selected(StoredPublications(localStorage), 2026)) = 2
    /\ \E i \in 1..2 : Prop(StoredPublications(localStorage)[i], "month") = <<SNum(0)>>
    /\ \E i \in 1..2 : Prop(StoredPublications(localStorage)[i], "month")
                            = <<SStr(<<"Q", "1">>)>>
    /\ WithoutMonthBucket(StoredPublications(localStorage), 2026, now) = 2
    /\ rendered # <<>>
    /\ QuarterSum(rendered[1]) = 0

(***************************************************************************)
(* C18.  A year-filter change to the empty string, or to a value that      *)
(* does not parse to an integer, with an envelope in the cache runs no     *)
(* aggregation and renders the cached dashboard_stats as they are, also    *)
(* when the page showed a filtered view before.                            *)
(***************************************************************************)
C18_NonIntegerFilterRendersCachedStats ==
    [][ (/\ IsYearChange
         /\ StoredEnvelope(localStorage) # <<>>
         /\ (lastEvent'.year = <<>> \/ parseInt(lastEvent'.year).nan))
        => /\ rendered' = <<StoredEnvelope(localStorage)[1].dashboard_stats>>
           /\ lastEvent'.path \in {"all_years", "not_a_year"}
           /\ ~lastEvent'.threw
           /\ ~loadingOverlay'
           /\ inflight' = inflight
           /\ localStorage' = localStorage ]_vars

\* the filter value "all" rendered the stats of the envelope
C18_Witness ==
    /\ lastEvent.op = "yearChange"
    /\ lastEvent.path = "not_a_year"
    /\ lastEvent.year = <<"a", "l", "l">>
    /\ StoredEnvelope(localStorage) = <<BodyA>>
    /\ rendered = <<StatsA>>
    /\ yearFilter = <<>>

(***************************************************************************)
(* C19.  A year-filter change that finds no cache (data key absent, empty, *)
(* malformed or null) does what a page load does: it shows the loading     *)
(* state and issues the bulk fetch.                                        *)
(***************************************************************************)
C19_FilterChangeWithoutCacheLoads ==
    [][ (IsYearChange /\ StoredObject(localStorage) = <<>>)
        => /\ lastEvent'.path = "no_cache"
           /\ loadingOverlay'
           /\ inflight' = inflight + 1
           /\ rendered' = rendered
           /\ ~lastEvent'.threw
           /\ localStorage' = localStorage ]_vars

\* after a failed load showed the all-zero stats, a filter change for 2025
\* found the data key absent and fetched again
C19_Witness ==
    /\ lastEvent.op = "yearChange"
    /\ lastEvent.path = "no_cache"
    /\ lastEvent.year = <<"2", "0", "2", "5">>
    /\ ~hasItem(localStorage, CACHE_KEY)
    /\ rendered = <<ZeroStats>>
    /\ loadingOverlay
    /\ inflight = 1

(***************************************************************************)
(* C20.  What a year-filter change renders depends on the cached envelope, *)
(* the year and the date only, not on what the page showed before: the     *)
(* same year chosen again renders the same stats, and the cached           *)
(* publications and dashboard_stats are left as they were.                 *)
(***************************************************************************)
C20_RefilteringSameYearIsIdempotent ==
    [][ (IsYearChange /\ StoredEnvelope(localStorage) # <<>>)
        => /\ localStorage' = localStorage
           /\ StoredEnvelope(localStorage') = StoredEnvelope(localStorage)
           /\ rendered' = loadDashboardData(
                              localStorage,
                              [FreshPage EXCEPT !.yearFilter = lastEvent'.year],
                              now, lastEvent'.year).page.rendered
           /\ (lastEvent.op = "yearChange" /\ lastEvent.year = lastEvent'.year)
                 => rendered' = rendered ]_vars

\* the filter for 2025 over a list of two records of 2025, the envelope
\* still holding both and the unfiltered stats
C20_Witness ==
    /\ lastEvent.op = "yearChange"
    /\ lastEvent.path = "filtered"
    /\ lastEvent.year = <<"2", "0", "2", "5">>
    /\ StoredEnvelope(localStorage) # <<>>
    /\ StoredEnvelope(localStorage)[1].dashboard_stats = StatsA
    /\ Len(StoredPublications(localStorage)) = 2
    /\ Cardinality(Selected(StoredPublications(localStorage), 2025)) = 2
    /\ rendered # <<>>
    /\ rendered[1].total_publications = 2
    /\ rendered[1].department_counts = StatsA.department_counts

(***************************************************************************)
(* C21.  No error escapes loadAllData or loadDashboardData, whatever the   *)
(* cache holds and however the fetch settles.                              *)
(***************************************************************************)
C21_NoErrorEscapes ==
    lastEvent.op \in {"DOMContentLoaded", "fetchSettled", "yearChange"}
        => ~lastEvent.threw

(***************************************************************************)
(* C22.  An unload removes the three cache keys unless it was caused by    *)
(* following an internal link, and then it keeps them.  An unload that     *)
(* comes right after the click is the one the click caused; one that       *)
(* comes after a page load, a year-filter change or twelve hours is not.   *)
(***************************************************************************)
IsUnload == pageLoaded /\ ~pageLoaded'

C22_ClearedUnlessFollowingInternalLink ==
    [][ IsUnload
        => /\ lastEvent.op = "linkClick" => localStorage' = localStorage
           /\ lastEvent.op \in {"DOMContentLoaded", "yearChange", "tick"}
                 => DOMAIN localStorage'
                        \cap {CACHE_KEY, CACHE_TIMESTAMP_KEY, CACHE_VERSION_KEY} = {}
      ]_vars

(***************************************************************************)
(* C23.  A year-filter change without a stored object while a fetch is in  *)
(* flight starts another fetch, so two are in flight; every successful     *)
(* response, in the order the responses complete, overwrites the cache     *)
(* and what is rendered, also with another request still in flight and     *)
(* after another response has been stored.                                 *)
(***************************************************************************)
C23_OverlappingLoadsLastCompletionWins ==
    [][ /\ (IsYearChange /\ StoredObject(localStorage) = <<>> /\ inflight > 0)
           => (inflight' = inflight + 1 /\ inflight' >= 2)
        /\ (/\ lastEvent'.op = "fetchSettled"
            /\ SuccessfulResponse(lastEvent'.outcome)
            /\ (inflight > 1 \/ lastEvent.op = "fetchSettled"))
           => (/\ StoredObject(localStorage') = <<lastEvent'.outcome.data.obj>>
               /\ rendered' = <<lastEvent'.outcome.data.obj.dashboard_stats>>) ]_vars

\* one response has been stored and rendered while the other request is
\* still in flight
C23_Witness ==
    /\ lastEvent.op = "fetchSettled"
    /\ lastEvent.path = "success"
    /\ ~lastEvent.cached
    /\ inflight = 1
    /\ StoredObject(localStorage) = <<BodyB>>
    /\ rendered = <<StatsB>>

(***************************************************************************)
(* C24.  Requests are issued by page loads and year-filter changes only,   *)
(* one at a time; the settling of a fetch, failed or not, ends one         *)
(* request and issues none.                                                *)
(***************************************************************************)
C24_NoRetryAfterFailure ==
    [][ /\ inflight' > inflight
           => ((IsPageLoad \/ IsYearChange) /\ inflight' = inflight + 1)
        /\ lastEvent'.op = "fetchSettled" => inflight' = inflight - 1 ]_vars

\* a load that failed with nothing stored: the all-zero stats are shown and
\* no request is in flight
C24_Witness ==
    /\ lastEvent.op = "fetchSettled"
    /\ lastEvent.path = "zero"
    /\ lastEvent.outcome = NetworkError
    /\ inflight = 0
    /\ rendered = <<ZeroStats>>
    /\ ~loadingOverlay

(***************************************************************************)
(* C25.  A pending load ends only when its fetch settles (or the page is   *)
(* unloaded): there is no timeout.  When the fetch settles, with success   *)
(* or failure, stats are rendered and the loading state is hidden.         *)
(***************************************************************************)
C25_LoadingEndsWhenFetchSettles ==
    [][ /\ inflight' < inflight => (lastEvent'.op = "fetchSettled" \/ IsUnload)
        /\ lastEvent'.op = "fetchSettled"
              => (~lastEvent'.threw /\ rendered' # <<>> /\ ~loadingOverlay') ]_vars

(***************************************************************************)
(* C28.  loadDashboardData reads the data key only: the timestamp and the  *)
(* version marker change nothing of what a year-filter change does, an     *)
(* envelope that is expired or under another version is recomputed from,   *)
(* and no year-filter change fetches while the data key parses.            *)
(***************************************************************************)
\* the store with the data key alone
DataKeyOnly(ls) == [k \in DOMAIN ls \cap {CACHE_KEY} |-> ls[k]]

ClockInstants == {StartMs + k * TickMs : k \in 0..MaxTicks}

\* the records without their month
WithoutMonths(pubs) ==
    [i \in 1..Len(pubs) |-> [k \in DOMAIN pubs[i] \ {"month"} |-> pubs[i][k]]]

\* the selected records that a filter for the current year y leaves out of
\* the total in quarter q
LeftOutOfTotal(pubs, y, q) ==
    {i \in Selected(pubs, y) :
        \/ normalizeMonth(pubs[i]) = <<>>
        \/ QuarterOfMonth(normalizeMonth(pubs[i])[1]) > q}

C27_CollegeCountsIgnoreMonthAndDate ==
    [][ IsFilteredChange
        => /\ rendered' # <<>>
           /\ \A t \in ClockInstants :
                  rendered'[1].college_counts
                      = recomputed(StoredPublications(localStorage), FilterYear, t
                                  ).college_counts
           /\ rendered'[1].college_counts
                  = recomputed(WithoutMonths(StoredPublications(localStorage)),
                               FilterYear, now).college_counts
           /\ FilterYear = YearAt(now)
                 => \A key \in DOMAIN rendered'[1].college_counts :
                        rendered'[1].college_counts[key]
                            >= Cardinality(
                                   {e \in EntriesNaming(StoredPublications(localStorage),
                                                        FilterYear, key) :
                                       e[1] \in LeftOutOfTotal(
                                                    StoredPublications(localStorage),
                                                    FilterYear, QuarterAt(now))}) ]_vars

\* in the first quarter of 2026 the filter for 2026 counts one record in
\* the total and two entries for engineering
C27_Witness ==
    /\ lastEvent.op = "yearChange"
    /\ lastEvent.path = "filtered"
    /\ lastEvent.year = <<"2", "0", "2", "6">>
    /\ QuarterAt(now) = 1
    /\ rendered # <<>>
    /\ LeftOutOfTotal(StoredPublications(localStorage), 2026, 1) # {}
    /\ rendered[1].college_counts["engineering"] > rendered[1].total_publications

(***************************************************************************)
(* C26.  A filtered view for year Y was served from a stale envelope while *)
(* a fetch is in flight.  When the fetch completes with a successful       *)
(* response, its unfiltered stats are rendered over the filtered ones.     *)
(* The selector is still on Y if Y is among the years the fetched stats    *)
(* make the selector offer, and is back on "All Years" if it is not.       *)
(***************************************************************************)
\* the years the selector offers once stats are rendered at t
OfferedYears(stats, t) ==
    IF "earliest_year" \notin DOMAIN stats \/ stats.earliest_year = 0
    THEN (YearAt(t) - 10)..YearAt(t)
    ELSE (stats.earliest_year..YearAt(t)) \cup {YearAt(t)}

\* the selector is on a year, the stored envelope is expired or of another
\* version, a fetch is in flight, and what is shown was recomputed from the
\* envelope for that year
StaleFilteredViewPending ==
    /\ inflight >= 1
    /\ IsDecimal(yearFilter)
    /\ StoredEnvelope(localStorage) # <<>>
    /\ ~isCacheValid(localStorage, now)
    /\ rendered # <<>>
    /\ \E t \in ClockInstants :
           /\ t <= now
           /\ \E f \in {recomputed(StoredPublications(localStorage),
                                    DigitsValue(yearFilter), t)} :
                  /\ rendered[1].total_publications = f.total_publications
                  /\ rendered[1].quarterly_counts = f.quarterly_counts
                  /\ rendered[1].college_counts = f.college_counts

\* the claim as stated: the selector is still on Y in every case
C26_SelectorKeepsYearAfterOverwrite ==
    [][ (/\ lastEvent'.op = "fetchSettled"
         /\ SuccessfulResponse(lastEvent'.outcome)
         /\ StaleFilteredViewPending)
        => /\ rendered' = <<lastEvent'.outcome.data.obj.dashboard_stats>>
           /\ yearFilter' = yearFilter ]_vars

C26_FetchOverwritesFilteredView ==
    [][ (/\ lastEvent'.op = "fetchSettled"
         /\ SuccessfulResponse(lastEvent'.outcome)
         /\ StaleFilteredViewPending)
        => /\ rendered' = <<lastEvent'.outcome.data.obj.dashboard_stats>>
           /\ inflight' = inflight - 1
           /\ yearFilter'
                  = (IF DigitsValue(yearFilter)
                           \in OfferedYears(lastEvent'.outcome.data.obj.dashboard_stats,
                                            now)
                     THEN yearFilter ELSE <<>>) ]_vars

\* loaded over a stale envelope, filtered for 2025 during the fetch, and the
\* response has arrived: the stats of all years are shown under "2025"
C26_Witness ==
    /\ now = StartMs
    /\ lastEvent.op = "fetchSettled"
    /\ lastEvent.path = "success"
    /\ ~lastEvent.valid
    /\ lastEvent.cached
    /\ inflight = 0
    /\ yearFilter = <<"2", "0", "2", "5">>
    /\ rendered = <<StatsA>>

(***************************************************************************)
(* C29.  A year-filter change to a decimal year Y that finds no parseable  *)
(* object in the data key renders nothing itself: it leaves the selector   *)
(* on Y and starts a load.  What the load then renders is unfiltered: the  *)
(* fetched dashboard_stats, or the zeros on failure.  The selector stays   *)
(* on Y if Y is among the years the rendered stats make it offer, and is   *)
(* back on "All Years" if it is not.                                       *)
(***************************************************************************)
\* the settling of a fetch right after a year-filter change to a decimal
\* year that found nothing stored, when the settling renders
SettlesAfterDelegatedChange ==
    /\ lastEvent.op = "yearChange"
    /\ lastEvent.path = "no_cache"
    /\ IsDecimal(lastEvent.year)
    /\ lastEvent'.op = "fetchSettled"
    /\ ~lastEvent'.threw

\* what a load that found nothing stored renders for outcome o
UnfilteredStats(o) ==
    IF SuccessfulResponse(o) THEN <<o.data.obj.dashboard_stats>> ELSE <<ZeroStats>>

DelegatesWithoutFiltering ==
    (/\ IsYearChange
     /\ IsDecimal(lastEvent'.year)
     /\ StoredObject(localStorage) = <<>>)
    => /\ rendered' = rendered
       /\ yearFilter' = lastEvent'.year
       /\ loadingOverlay'
       /\ inflight' = inflight + 1
       /\ localStorage' = localStorage

\* the claim as stated: the selector keeps Y in every case
C29_DelegatedLoadKeepsSelector ==
    [][ /\ DelegatesWithoutFiltering
        /\ SettlesAfterDelegatedChange
              => /\ rendered' = UnfilteredStats(lastEvent'.outcome)
                 /\ yearFilter' = lastEvent.year ]_vars

C29_DelegatedLoadRendersUnfiltered ==
    [][ /\ DelegatesWithoutFiltering
        /\ SettlesAfterDelegatedChange
              => /\ rendered' = UnfilteredStats(lastEvent'.outcome)
                 /\ yearFilter'
                        = (IF DigitsValue(lastEvent.year)
                                 \in OfferedYears(rendered'[1], now)
                           THEN lastEvent.year ELSE <<>>) ]_vars

\* nothing was stored when the selector went to 2025; the response of the
\* delegated load is shown as served, under "2025"
C29_Witness ==
    /\ lastEvent.op = "fetchSettled"
    /\ lastEvent.path = "success"
    /\ ~lastEvent.cached
    /\ lastEvent.outcome = HttpOk(JObject(BodyA))
    /\ yearFilter = <<"2", "0", "2", "5">>
    /\ rendered = <<StatsA>>

(***************************************************************************)
(* C30.  When a storage write of setCachedData throws while a successful   *)
(* response is persisted, the failure path renders what the data key then  *)
(* holds.  The data key is written first: if its write is the one that     *)
(* throws, the envelope stored before is rendered, or the zeros when       *)
(* nothing parseable was stored; if a later write throws, the data key     *)
(* already holds the response and the fetched dashboard_stats are          *)
(* rendered.  The version marker is never written, and the timestamp       *)
(* only after the data.                                                    *)
(***************************************************************************)
\* the item stored under a key, if any
ItemOf(ls, key) == IF key \in DOMAIN ls THEN <<ls[key]>> ELSE <<>>

\* a successful response settles and is not handled as a success: a write
\* of setCachedData threw
WriteFailedStep ==
    /\ lastEvent'.op = "fetchSettled"
    /\ SuccessfulResponse(lastEvent'.outcome)
    /\ lastEvent'.path # "success"
    /\ pageLoaded

\* the dashboard_stats of the envelope a store holds, the zeros without one
EnvelopeStatsOrZeros(ls) ==
    IF StoredEnvelope(ls) # <<>> THEN <<StoredEnvelope(ls)[1].dashboard_stats>>
    ELSE <<ZeroStats>>

\* the claim as stated: the envelope stored before, or the zeros
C30_WriteFailureRendersPreviousEnvelope ==
    [][ (WriteFailedStep
         /\ (StoredEnvelope(localStorage) # <<>> \/ StoredObject(localStorage) = <<>>))
        => rendered' = EnvelopeStatsOrZeros(localStorage) ]_vars

C30_WriteFailureRendersWhatDataKeyHolds ==
    [][ WriteFailedStep
        => /\ ~loadingOverlay'
           /\ inflight' = inflight - 1
           /\ ItemOf(localStorage', CACHE_VERSION_KEY)
                  = ItemOf(localStorage, CACHE_VERSION_KEY)
           /\ ItemOf(localStorage', CACHE_TIMESTAMP_KEY)
                     # ItemOf(localStorage, CACHE_TIMESTAMP_KEY)
                 => StoredObject(localStorage') = <<lastEvent'.outcome.data.obj>>
           /\ ItemOf(localStorage', CACHE_KEY) # ItemOf(localStorage, CACHE_KEY)
                 => /\ StoredObject(localStorage') = <<lastEvent'.outcome.data.obj>>
                    /\ rendered' = <<lastEvent'.outcome.data.obj.dashboard_stats>>
           /\ (/\ ItemOf(localStorage', CACHE_KEY) = ItemOf(localStorage, CACHE_KEY)
               /\ (StoredEnvelope(localStorage) # <<>>
                      \/ StoredObject(localStorage) = <<>>))
                 => rendered' = EnvelopeStatsOrZeros(localStorage) ]_vars

\* nothing was stored, the data was written and a later write threw: the
\* fetched stats are shown and no version marker is stored
C30_Witness ==
    /\ lastEvent.op = "fetchSettled"
    /\ lastEvent.path = "expired_cache"
    /\ ~lastEvent.cached
    /\ lastEvent.outcome = HttpOk(JObject(BodyA))
    /\ StoredObject(localStorage) = <<BodyA>>
    /\ CACHE_VERSION_KEY \notin DOMAIN localStorage
    /\ rendered = <<StatsA>>
    /\ ~loadingOverlay

(***************************************************************************)
(* C31.  A response that is no error is stored whole, with the time of     *)
(* its arrival and the current version, before anything of it is looked    *)
(* at, also when it has no dashboard_stats and the render throws.  A page  *)
(* load that finds the current version, a timestamp less than 24 hours     *)
(* old and a stored object takes the cache path with that object and       *)
(* issues no request.  A stored body that is not an object, the JSON       *)
(* text false, is looked up and found falsy: that page load fetches.       *)
(***************************************************************************)
\* the fetch gave a body that loadAllData does not treat as an error
PersistableResponse(o) ==
    /\ o.net /\ o.ok /\ o.json
    /\ o.data.type # "null"
    /\ ~("error" \in DOMAIN o.data.obj /\ o.data.obj.error # "")

\* the data key holds the JSON text of a body that was persisted
HoldsPersistedBody(ls) ==
    /\ CACHE_KEY \in DOMAIN ls
    /\ ls[CACHE_KEY].kind = "json"
    /\ ls[CACHE_KEY].lit # "null"

PersistsBeforeRendering ==
    (lastEvent'.op = "fetchSettled" /\ PersistableResponse(lastEvent'.outcome))
    => /\ CACHE_KEY \in DOMAIN localStorage'
       /\ JSONparse(localStorage'[CACHE_KEY])
              = [threw |-> FALSE, value |-> lastEvent'.outcome.data]
       /\ ItemOf(localStorage', CACHE_TIMESTAMP_KEY) = <<toString(now)>>
       /\ VersionMarkerCurrent(localStorage')
       /\ (/\ lastEvent'.outcome.data.type = "object"
           /\ "dashboard_stats" \notin DOMAIN lastEvent'.outcome.data.obj)
             => lastEvent'.threw

\* the claim as stated: whatever body was persisted, the load is served
\* from it
C31_PersistedBodyServesLaterLoads ==
    [][ /\ PersistsBeforeRendering
        /\ (/\ IsPageLoad
            /\ VersionMarkerCurrent(localStorage)
            /\ TimestampFresh(localStorage, now)
            /\ HoldsPersistedBody(localStorage))
           => (inflight' = 0 /\ lastEvent'.path = "cache") ]_vars

C31_PersistedObjectServesLaterLoads ==
    [][ /\ PersistsBeforeRendering
        /\ (/\ IsPageLoad
            /\ VersionMarkerCurrent(localStorage)
            /\ TimestampFresh(localStorage, now)
            /\ HoldsPersistedBody(localStorage))
           => IF StoredObject(localStorage) # <<>>
              THEN /\ inflight' = 0
                   /\ lastEvent'.path = "cache"
                   /\ localStorage' = localStorage
                   /\ IF "dashboard_stats" \in DOMAIN StoredObject(localStorage)[1]
                      THEN rendered'
                              = <<StoredObject(localStorage)[1].dashboard_stats>>
                      ELSE lastEvent'.threw /\ rendered' = <<>>
              ELSE inflight' = 1 /\ loadingOverlay' /\ rendered' = <<>> ]_vars

\* a response without dashboard_stats was stored at the start of the
\* session; a page load twelve hours later is served from it
C31_Witness ==
    /\ lastEvent.op = "DOMContentLoaded"
    /\ lastEvent.path = "cache"
    /\ now = StartMs + TickMs
    /\ ItemOf(localStorage, CACHE_TIMESTAMP_KEY) = <<toString(StartMs)>>
    /\ StoredObject(localStorage) = <<BodyNoStats>>
    /\ inflight = 0

(***************************************************************************)
(* C32.  When the recomputation for a year throws on the cached list (a    *)
(* null entry, or a colleges string on a record of that year), the         *)
(* year-filter change lets no error out and renders the cached             *)
(* dashboard_stats as they are: nothing that was counted before the        *)
(* throw is shown, and the loading state is hidden.                        *)
(***************************************************************************)
\* the list has an entry on which the recomputation for year y throws
ThrowsOn(pubs, y) ==
    \E i \in 1..Len(pubs) :
        IF "null" \in DOMAIN pubs[i] THEN TRUE
        ELSE YearOf(pubs[i]) = <<y>> /\ "collegesText" \in DOMAIN pubs[i]

C32_RecomputationErrorRendersCachedStats ==
    [][ (/\ IsFilteredChange
         /\ ThrowsOn(StoredPublications(localStorage), FilterYear))
        => /\ ~lastEvent'.threw
           /\ rendered' = <<StoredEnvelope(localStorage)[1].dashboard_stats>>
           /\ ~loadingOverlay'
           /\ inflight' = inflight
           /\ localStorage' = localStorage ]_vars

\* the filter for 2026 over the list with the colleges string: one record
\* was counted before the throw and the cached stats are shown
C32_Witness ==
    /\ lastEvent.op = "yearChange"
    /\ lastEvent.year = <<"2", "0", "2", "6">>
    /\ ~lastEvent.threw
    /\ StoredPublications(localStorage) = PubsCollegesText
    /\ yearFilter = <<"2", "0", "2", "6">>
    /\ rendered = <<StatsA>>

(***************************************************************************)
(* C33.  The store changes in two kinds of step only: the settling of a    *)
(* fetch with a response that is no error, which writes the data, the      *)
(* time and the current version, and an unload without the internal_nav    *)
(* flag, which removes the three keys.  A failed fetch, a page load and    *)
(* a year-filter change leave the three keys as they are; a failed fetch   *)
(* over a stale envelope leaves its timestamp stale.                       *)
(***************************************************************************)
\* the three keys hold the response, the instant t and the current version
WrittenBySetCachedData(ls, data, t) ==
    /\ {CACHE_KEY, CACHE_TIMESTAMP_KEY, CACHE_VERSION_KEY} \subseteq DOMAIN ls
    /\ JSONparse(ls[CACHE_KEY]) = [threw |-> FALSE, value |-> data]
    /\ ls[CACHE_TIMESTAMP_KEY] = toString(t)
    /\ VersionMarkerCurrent(ls)

C33_CacheKeysChangeOnlyOnPersistAndClear ==
    [][ /\ localStorage' # localStorage
           => \/ /\ lastEvent'.op = "fetchSettled"
                 /\ PersistableResponse(lastEvent'.outcome)
                 /\ WrittenBySetCachedData(localStorage', lastEvent'.outcome.data, now)
              \/ /\ IsUnload
                 /\ "internal_nav" \notin sessionStorage
                 /\ DOMAIN localStorage'
                        \cap {CACHE_KEY, CACHE_TIMESTAMP_KEY, CACHE_VERSION_KEY} = {}
        /\ (lastEvent'.op = "fetchSettled" /\ ~PersistableResponse(lastEvent'.outcome))
           => localStorage' = localStorage
        /\ (IsPageLoad \/ IsYearChange) => localStorage' = localStorage ]_vars

\* a fetch failed over an envelope written at time 0: the envelope is shown
\* and its timestamp is still 0
C33_Witness ==
    /\ lastEvent.op = "fetchSettled"
    /\ lastEvent.path = "expired_cache"
    /\ lastEvent.outcome = NetworkError
    /\ ItemOf(localStorage, CACHE_TIMESTAMP_KEY) = <<toString(0)>>
    /\ VersionMarkerCurrent(localStorage)
    /\ StoredEnvelope(localStorage) # <<>>
    /\ ~isCacheValid(localStorage, now)
    /\ rendered = <<StoredEnvelope(localStorage)[1].dashboard_stats>>

(***************************************************************************)
(* C34.  The internal_nav flag is set by a click on an internal link and   *)
(* by nothing else, and it is gone after every page load and every         *)
(* unload.  The click leaves the page loaded and the flag set.  An unload  *)
(* without the flag removes the three cache keys, and the page load that   *)
(* follows fetches; an unload with the flag, whatever happened since the   *)
(* click, leaves the store as it is.                                       *)
(***************************************************************************)
FlagSet(ss) == "internal_nav" \in ss

\* none of the three cache keys is stored
NoCacheKey(ls) ==
    DOMAIN ls \cap {CACHE_KEY, CACHE_TIMESTAMP_KEY, CACHE_VERSION_KEY} = {}

C34_FlagDecidesWhetherUnloadClears ==
    [][ /\ sessionStorage' # sessionStorage
           => \/ lastEvent'.op = "linkClick" /\ ~FlagSet(sessionStorage)
              \/ (IsPageLoad \/ IsUnload) /\ FlagSet(sessionStorage)
        /\ lastEvent'.op = "linkClick"
           => (FlagSet(sessionStorage') /\ pageLoaded' /\ localStorage' = localStorage)
        /\ (IsPageLoad \/ IsUnload) => ~FlagSet(sessionStorage')
        /\ (IsUnload /\ ~FlagSet(sessionStorage)) => NoCacheKey(localStorage')
        /\ (IsUnload /\ FlagSet(sessionStorage)) => localStorage' = localStorage
        /\ (~pageLoaded /\ ~pageLoaded') => localStorage' = localStorage
        /\ (IsPageLoad /\ NoCacheKey(localStorage))
           => (inflight' = 1 /\ loadingOverlay' /\ rendered' = <<>>) ]_vars

\* an internal link was clicked twelve hours or more ago, the page is
\* still loaded over a stored envelope and the flag is still set
C34_Witness ==
    /\ pageLoaded
    /\ lastEvent.op = "tick"
    /\ FlagSet(sessionStorage)
    /\ StoredEnvelope(localStorage) # <<>>

(***************************************************************************)
(* C35.  A page load takes the cache path only when the version is         *)
(* current, the timestamp fresh and the data key parses to an object.      *)
(* With version and timestamp valid and the data key absent, empty or      *)
(* malformed it shows the loading state and fetches, rendering nothing;    *)
(* the response, when it is no error, is then written over all three       *)
(* keys.                                                                   *)
(***************************************************************************)
\* the data key is absent, empty, or holds text that does not parse
DataUnreadable(ls) == CACHE_KEY \notin DOMAIN ls \/ ls[CACHE_KEY].kind # "json"

C35_ValidButUnreadableCacheIsAMiss ==
    [][ /\ (IsPageLoad /\ lastEvent'.path = "cache")
           => (/\ VersionMarkerCurrent(localStorage)
               /\ TimestampFresh(localStorage, now)
               /\ StoredObject(localStorage) # <<>>)
        /\ (/\ IsPageLoad
            /\ VersionMarkerCurrent(localStorage)
            /\ TimestampFresh(localStorage, now)
            /\ DataUnreadable(localStorage))
           => (/\ inflight' = 1
               /\ loadingOverlay'
               /\ rendered' = <<>>
               /\ ~lastEvent'.threw
               /\ localStorage' = localStorage)
        /\ (/\ lastEvent'.op = "fetchSettled"
            /\ PersistableResponse(lastEvent'.outcome)
            /\ DataUnreadable(localStorage))
           => (/\ ItemOf(localStorage', CACHE_KEY)
                     = <<JSONstringify(lastEvent'.outcome.data)>>
               /\ ItemOf(localStorage', CACHE_TIMESTAMP_KEY) = <<toString(now)>>
               /\ ItemOf(localStorage', CACHE_VERSION_KEY)
                     = <<toString(CACHE_VERSION)>>) ]_vars

\* the fetch of a load that found version and timestamp valid and no
\* readable data has succeeded, and the three keys are written
C35_Witness ==
    /\ lastEvent.op = "fetchSettled"
    /\ lastEvent.path = "success"
    /\ lastEvent.valid
    /\ ~lastEvent.cached
    /\ yearFilter = <<>>
    /\ StoredObject(localStorage) = <<BodyA>>
    /\ ItemOf(localStorage, CACHE_TIMESTAMP_KEY) = <<toString(now)>>
    /\ VersionMarkerCurrent(localStorage)
    /\ rendered = <<StatsA>>

(***************************************************************************)
(* C36.  The report export matches the preview 1:1: exportReport sends no  *)
(* request until a preview has succeeded at least once, and the            *)
(* publications it posts are the rows of the most recent preview: whenever *)
(* a step sends the export request, the most recent preview request to     *)
(* settle has answered a list, and the posted publications are that list.  *)
(***************************************************************************)
ExportSent == ~reportRequests.export /\ reportRequests'.export

PostedPublications == reportRequests'.exported[1].publications

C36_ExportPostsMostRecentPreview ==
    [][ExportSent =>
          /\ reportRequests.previewed # <<>>
          /\ PostedPublications = reportRequests.previewed[1]]_vars

====
